---- MODULE Spec2Model ----
(***************************************************************************)
(* Model of the countryball spawn-and-catch subsystem of BallsDex:          *)
(*   ballsdex/packages/countryballs/cog.py        (CountryBallsSpawner)     *)
(*   ballsdex/packages/countryballs/countryball.py (CountryBall)            *)
(*   ballsdex/core/bot.py          (BallsDexBot.load_cache, on_ready,       *)
(*                                  CommandTree.interaction_check)          *)
(*   ballsdex/core/utils/buttons.py                (ConfirmChoiceView)      *)
(* Coroutines run on one asyncio event loop: the code between two awaits    *)
(* that really suspend is one atomic action; every such await is a point    *)
(* where the other coroutines may run and where the awaited collaborator    *)
(* (database, Discord API) may raise.                                       *)
(***************************************************************************)
EXTENDS Integers, Sequences, FiniteSets, TLC

VARIABLES
    active_views,   \* countryball.py:18  message id -> the CountryBall of its CatchView
    att,            \* one record per catch attempt: its position in try_catch_ball / catch_ball
    instances,      \* the BallInstance table, in creation order
    players,        \* the Player table (discord ids that have a row)
    balls,          \* ballsdex.core.models.balls: pk -> Ball, the in-memory catalog
    ballTable,      \* the Ball table of the database, the source load_cache reads
    lc,             \* position of the running BallsDexBot.load_cache, "idle" when none runs
    hnd,            \* one record per on_message invocation: its position in on_message / spawn
    sent,           \* announcement messages posted so far (their ids are 1..sent)
    cache,          \* cog.py:64  CountryBallsSpawner.cache: guild id -> spawn channel id
    blacklist_guild,\* bot.py:150  BallsDexBot.blacklist_guild
    specials,       \* ballsdex.core.models.specials: the cached Special rows (bot.py:207-209)
    trig,           \* the spawn manager's per-guild trigger state (cog.py:50, 98)
    arg,            \* input of the pure function under check
    ret,            \* its result
    sc,             \* one record per on_ballsdex_settings_change invocation (cog.py:116-139)
    vm,             \* one record per check_voice_message task (cog.py:96, 261-337)
    adm,            \* one record per /admin cooldown invocation (admin/cog.py:147-191)
    bot,            \* BallsDexBot: is_ready(), blacklist (bot.py:149), cogs
    ic,             \* one record per CommandTree.interaction_check invocation (bot.py:95-116)
    ccv,            \* a ConfirmChoiceView: value and its buttons (buttons.py:7-17)
    btn,            \* one record per button interaction dispatched to the view
    rdy             \* one record per on_ready invocation (bot.py:256-330)

catchVars == <<active_views, att, instances, players>>
spawnVars == <<balls, ballTable, lc, hnd, sent, cache, blacklist_guild>>
funVars   == <<arg, ret>>
uiVars    == <<bot, ic, ccv, btn, rdy>>
opVars    == <<sc, vm, adm, uiVars>>
vars      == <<active_views, att, instances, players, balls, ballTable, lc, hnd, sent,
               cache, blacklist_guild, specials, trig, arg, ret, sc, vm, adm,
               bot, ic, ccv, btn, rdy>>

None == "None"
\* an Optional[int] / Optional[Special] attribute: Null for None, Some(x) for a value
Null == <<>>
Some(x) == <<x>>

(***************************************************************************)
(* Text.  A str is a sequence of one-character strings.                     *)
(***************************************************************************)
S_brazil      == <<"b","r","a","z","i","l">>
S_Brazil      == <<"B","r","a","z","i","l">>
S_BRAZIL      == <<"B","R","A","Z","I","L">>
S_BRAZIL_sp   == <<"B","R","A","Z","I","L"," ">>
S_brasil      == <<"b","r","a","s","i","l">>
S_Brasil      == <<"B","r","a","s","i","l">>
S_Argentina   == <<"A","r","g","e","n","t","i","n","a">>
S_Germany     == <<"G","e","r","m","a","n","y">>
S_brazil_brasil == <<"b","r","a","z","i","l",";","b","r","a","s","i","l">>
\* "Cote d'Ivoire" shortened to "d'I", with the ASCII and the typographic apostrophe
S_dI_ascii    == <<"d","'","I">>
S_di_ascii    == <<"d","'","i">>
S_di_rsquo    == <<"d","U+2019","i">>
S_di_lsquo    == <<" ","D","U+2018","i","\n">>
S_q_ldquo     == <<"U+201C","q","U+201D">>
S_q_ascii     == <<"\"","q","\"">>
S_empty       == <<>>

UpperCase == <<"A","B","C","D","E","F","G","H","I","J","K","L","M",
               "N","O","P","Q","R","S","T","U","V","W","X","Y","Z">>
LowerCase == <<"a","b","c","d","e","f","g","h","i","j","k","l","m",
               "n","o","p","q","r","s","t","u","v","w","x","y","z">>

\* str.lower() on one character
LowerChar(c) ==
    IF \E i \in DOMAIN UpperCase : UpperCase[i] = c
    THEN LowerCase[CHOOSE i \in DOMAIN UpperCase : UpperCase[i] = c]
    ELSE c

\* str.lower()
Lower(s) == [i \in DOMAIN s |-> LowerChar(s[i])]

IsSpace(c) == c \in {" ", "\t", "\n"}

\* str.strip(): drop the leading and the trailing whitespace
Strip(s) ==
    IF \A i \in DOMAIN s : IsSpace(s[i]) THEN <<>>
    ELSE LET first == CHOOSE i \in DOMAIN s :
                          /\ ~IsSpace(s[i])
                          /\ \A j \in 1..(i-1) : IsSpace(s[j])
             last  == CHOOSE i \in DOMAIN s :
                          /\ ~IsSpace(s[i])
                          /\ \A j \in (i+1)..Len(s) : IsSpace(s[j])
         IN  SubSeq(s, first, last)

\* str.replace(old, new) for a one-character old
Replace(s, old, new) == [i \in DOMAIN s |-> IF s[i] = old THEN new ELSE s[i]]

\* str.split(";"): the pieces between the separators, empty pieces kept
RECURSIVE Split(_, _)
Split(s, sep) ==
    IF \A i \in DOMAIN s : s[i] # sep THEN <<s>>
    ELSE LET k == CHOOSE i \in DOMAIN s : s[i] = sep /\ \A j \in 1..(i-1) : s[j] # sep
         IN  <<SubSeq(s, 1, k-1)>> \o Split(SubSeq(s, k+1, Len(s)), sep)

Range(f) == {f[i] : i \in DOMAIN f}

\* mutant of CName: the surrounding whitespace is kept
CNameNoStrip(msg) ==
    Replace(Replace(Replace(Replace(Lower(msg),
        "U+2019", "'"), "U+2018", "'"), "U+201C", "\""), "U+201D", "\"")

\* cog.py:224-229  cname: lower, strip, then the four quote replacements
CName(msg) ==
    Replace(Replace(Replace(Replace(Strip(Lower(msg)),
        "U+2019", "'"), "U+2018", "'"), "U+201C", "\""), "U+201D", "\"")

\* cog.py:218-223  possible_names of a Ball (model.country, catch_names, translations);
\* a None or empty catch_names / translations is falsy and skipped
PossibleNames(model) ==
    {Lower(model.country)}
    \cup (IF model.catch_names # <<>>
          THEN Range(Split(model.catch_names, ";")) ELSE {})
    \cup (IF model.translations # <<>>
          THEN {Lower(x) : x \in Range(Split(model.translations, ";"))} ELSE {})

\* cog.py:231  cname in possible_names
NameMatches(msg, model) == CName(msg) \in PossibleNames(model)

(***************************************************************************)
(* The catalog entries used by the scenarios (rows of the Ball table).      *)
(* rarity is the float weight times 10.                                     *)
(***************************************************************************)
BrazilBall  == [pk |-> 1, country |-> S_Brazil, catch_names |-> S_brasil,
                translations |-> <<>>, enabled |-> TRUE, rarity |-> 5]
GermanyBall == [pk |-> 2, country |-> S_Germany, catch_names |-> <<>>,
                translations |-> <<>>, enabled |-> TRUE, rarity |-> 1]
\* a disabled row, and an enabled row of rarity 0 (admin/cog.py:121,126 treats both
\* as "not spawning")
RetiredBall == [pk |-> 3, country |-> S_Argentina, catch_names |-> <<>>,
                translations |-> <<>>, enabled |-> FALSE, rarity |-> 5]
ZeroBall    == [pk |-> 4, country |-> S_Argentina, catch_names |-> <<>>,
                translations |-> <<>>, enabled |-> TRUE, rarity |-> 0]

\* the one guild of the scenarios and its configured spawn channel
Guild1 == "guild1"
SpawnCache == [g \in {Guild1} |-> "channel1"]
\* no load_cache is running; old: the mapping the last reload replaced (None while
\* only the load of on_ready, bot.py:281, has run), kept to state what a reader may see
\* during and after a reload
IdleLoad == [pc |-> "idle", old |-> <<None>>]

(***************************************************************************)
(* Special variants and the stat roll of catch_ball, cog.py:146-178.        *)
(* A Special's rarity is the float in [0, 1] times 10; times are integers.  *)
(***************************************************************************)
\* the literal 1 of cog.py:172 (1 - x.rarity) in tenths
One == 10
\* the instants datetime_now() takes in the scenarios
Times == {1, 2, 3}

\* rows of the Special table; a null start_date / end_date is Null
Golden  == [pk |-> 1, rarity |-> 2, start_date |-> Null, end_date |-> Null]
Summer  == [pk |-> 2, rarity |-> 5, start_date |-> Some(2), end_date |-> Some(3)]
Launch  == [pk |-> 3, rarity |-> One, start_date |-> Null, end_date |-> Some(2)]
Forever == [pk |-> 4, rarity |-> One, start_date |-> Some(1), end_date |-> Null]
Hidden  == [pk |-> 5, rarity |-> 0, start_date |-> Some(3), end_date |-> Null]
\* contents of the specials cache in the scenarios (dict order = load order)
SpecialTables == {<<>>, <<Golden>>, <<Summer>>, <<Golden, Summer>>, <<Launch, Forever>>,
                  <<Summer, Hidden>>}

\* settings.max_attack_bonus, settings.max_health_bonus (cog.py:149, 154)
max_attack_bonus == 2
max_health_bonus == 1

\* mutant of RandInt: randrange(a, b), the upper end excluded
RandRange(a, b) == a..(b-1)
\* cog.py:149, 154  the values random.randint(a, b) returns: a <= N <= b
RandInt(a, b) == a..b

\* mutant of BonusAttack: the override of the spawned ball is ignored
BonusAttackDrawn(ball, draw) == draw
\* cog.py:146-150  bonus_attack for the value `draw` of random.randint
BonusAttack(ball, draw) == IF ball.atk_bonus # Null THEN ball.atk_bonus[1] ELSE draw
\* cog.py:151-155  bonus_health
BonusHealth(ball, draw) == IF ball.hp_bonus # Null THEN ball.hp_bonus[1] ELSE draw

\* mutant of ActiveAt: the end date is not compared
ActiveAtNoEnd(x, now) == x.start_date = Null \/ x.start_date[1] <= now
\* cog.py:164-166  (start_date or datetime.min) <= now <= (end_date or datetime.max)
ActiveAt(x, now) ==
    /\ x.start_date = Null \/ x.start_date[1] <= now
    /\ x.end_date = Null \/ now <= x.end_date[1]

\* cog.py:160-167  population: the cached specials whose window holds `now`
Population(cached, now) == SelectSeq(cached, LAMBDA x : ActiveAt(x, now))

\* sum(w[1..i])
RECURSIVE CumSum(_, _)
CumSum(w, i) == IF i = 0 THEN 0 ELSE CumSum(w, i-1) + w[i]

\* mutant of CommonWeight: 1 - sum(x.rarity)
CommonWeightOfSum(pop) == One - CumSum([i \in DOMAIN pop |-> pop[i].rarity], Len(pop))
\* cog.py:174  common_weight = sum(1 - x.rarity for x in population)
CommonWeight(pop) == CumSum([i \in DOMAIN pop |-> One - pop[i].rarity], Len(pop))

\* cog.py:176  weights = [x.rarity for x in population] + [common_weight]
SpecialWeights(pop) == [i \in DOMAIN pop |-> pop[i].rarity] \o <<CommonWeight(pop)>>
\* cog.py:178  population + [None]
SpecialChoices(pop) == [i \in DOMAIN pop |-> Some(pop[i])] \o <<Null>>

\* mutant of ChoicesRaises: a routine that rejects a weight of zero
ChoicesRaisesOnZero(weights) ==
    IF \E i \in DOMAIN weights : weights[i] <= 0 THEN "ValueError" ELSE None
\* random.choices: ValueError("Total of weights must be greater than zero"), None when
\* it returns
ChoicesRaises(weights) ==
    IF CumSum(weights, Len(weights)) <= 0 THEN "ValueError" ELSE None

\* random.choices(population, weights, k=1)[0] for the draw r = floor(random() * total):
\* population[bisect(cum_weights, r, 0, len - 1)]
Choices(population, weights, r) ==
    population[CHOOSE i \in DOMAIN population :
                   /\ CumSum(weights, i) > r \/ i = Len(population)
                   /\ \A j \in 1..(i-1) : CumSum(weights, j) <= r]

\* cog.py:168  `not special and population`: a variant is drawn
DrawsSpecial(ball, pop) == ball.special = Null /\ pop # <<>>
\* cog.py:159-178  special, as an Optional[Special], for the draw r
SelectSpecial(ball, pop, r) ==
    IF DrawsSpecial(ball, pop)
    THEN Choices(SpecialChoices(pop), SpecialWeights(pop), r)
    ELSE ball.special

\* the values floor(random() * total) takes on the special tables of the scenarios
SpecialDraws ==
    UNION {0..(CumSum(SpecialWeights(t), Len(t) + 1) - 1) : t \in SpecialTables \ {<<>>}}

\* bound of the catch scenario: the number of concurrent try_catch_ball calls
MaxAttempts == 3

Attempts == 1..MaxAttempts
\* the catch scenario starts after one spawn: its announcement message has id 1
OpenKeys == {1}
CatchTexts == {S_BRAZIL_sp, S_brasil, S_Argentina}

\* raised_at: the await whose exception ended the attempt (the frame of its traceback)
\* bonus_attack, bonus_health, special: the locals of catch_ball; now: the datetime_now()
\* of cog.py:165
IdleAttempt == [pc |-> "idle", key |-> 0, msg |-> <<>>, author |-> 0,
                is_new |-> FALSE, outcome |-> None, raised_at |-> None,
                bonus_attack |-> 0, bonus_health |-> 0, special |-> Null, now |-> 0]

\* countryball.py:30-39  CountryBall.__init__ (caught = False, special, atk_bonus and
\* hp_bonus None), wrapped in its CatchView
NewCountryBall(model, time) ==
    [model |-> model, caught |-> FALSE, time |-> time, disabled |-> FALSE,
     special |-> Null, atk_bonus |-> Null, hp_bonus |-> Null]

(***************************************************************************)
(* try_catch_ball and catch_ball, cog.py:141-259.  pc names the await the   *)
(* attempt is suspended on.                                                 *)
(***************************************************************************)
\* a caller holding the CatchView of `key` calls try_catch_ball(message, view, msg);
\* cog.py:211  it suspends on Player.get_or_create
CallTryCatch(a, key, msg, author) ==
    /\ att[a].pc = "idle"
    /\ key \in DOMAIN active_views
    /\ att' = [att EXCEPT ![a] = [IdleAttempt EXCEPT !.pc = "t_player", !.key = key,
                                                     !.msg = msg, !.author = author]]
    /\ UNCHANGED <<active_views, instances, players>>

\* cog.py:212-217  the reply to an attempt on a ball that is already caught
AlreadyCaughtReply(a) ==
    /\ att' = [att EXCEPT ![a].pc = "done", ![a].outcome = "AlreadyCaught"]
    /\ UNCHANGED <<active_views, instances>>

\* mutant of MarkCaught: catch_ball is entered without the flag being set
MarkCaughtNotSet(a) ==
    /\ att' = [att EXCEPT ![a].pc = "c_player"]
    /\ UNCHANGED <<active_views, instances>>

\* cog.py:231-235  a matching name: the flag is set, then catch_ball is entered and
\* suspends on its own Player.get_or_create (cog.py:144)
MarkCaught(a) ==
    /\ active_views' = [active_views EXCEPT ![att[a].key].caught = TRUE]
    /\ att' = [att EXCEPT ![a].pc = "c_player"]
    /\ UNCHANGED instances

\* mutant of WrongNameReply: a wrong name closes the session
WrongNameReplyCloses(a) ==
    /\ att' = [att EXCEPT ![a].pc = "done", ![a].outcome = "WrongName"]
    /\ active_views' = [active_views EXCEPT ![att[a].key].caught = TRUE]
    /\ UNCHANGED instances

\* cog.py:253-259  the reply to a name that is not among possible_names
WrongNameReply(a) ==
    /\ att' = [att EXCEPT ![a].pc = "done", ![a].outcome = "WrongName"]
    /\ UNCHANGED <<active_views, instances>>

\* mutant of TryCatchBall: the name is matched without testing view.ball.caught first
TryCatchBallNoFlagTest(a) ==
    /\ att[a].pc = "t_player"
    /\ players' = players \cup {att[a].author}
    /\ IF NameMatches(att[a].msg, active_views[att[a].key].model)
       THEN MarkCaught(a)
       ELSE WrongNameReply(a)

\* cog.py:211-259  try_catch_ball from the return of Player.get_or_create to its next await
TryCatchBall(a) ==
    /\ att[a].pc = "t_player"
    /\ players' = players \cup {att[a].author}
    /\ IF active_views[att[a].key].caught
       THEN AlreadyCaughtReply(a)
       ELSE IF NameMatches(att[a].msg, active_views[att[a].key].model)
            THEN MarkCaught(a)
            ELSE WrongNameReply(a)

\* cog.py:144-180  catch_ball from the return of Player.get_or_create to the await of
\* BallInstance.filter(...).exists(): the stat roll and the special variant, for the
\* values atk and hp of random.randint, the datetime_now() `now` and the draw r of
\* random.choices
CatchBallPlayer(a, atk, hp, now, r) ==
    LET ball == active_views[att[a].key]
        pop  == Population(specials, now)
    IN  /\ att[a].pc = "c_player"
        /\ atk \in RandInt(-max_attack_bonus, max_attack_bonus)
        /\ hp \in RandInt(-max_health_bonus, max_health_bonus)
        /\ players' = players \cup {att[a].author}
        /\ IF DrawsSpecial(ball, pop) /\ ChoicesRaises(SpecialWeights(pop)) # None
           THEN att' = [att EXCEPT ![a].pc = "done", ![a].outcome = "Error",
                                   ![a].raised_at = "choices", ![a].now = now]
           ELSE /\ DrawsSpecial(ball, pop) => r < CumSum(SpecialWeights(pop), Len(pop) + 1)
                /\ att' = [att EXCEPT ![a].pc = "c_exists",
                                      ![a].bonus_attack = BonusAttack(ball, atk),
                                      ![a].bonus_health = BonusHealth(ball, hp),
                                      ![a].special = SelectSpecial(ball, pop, r),
                                      ![a].now = now]
        /\ UNCHANGED <<active_views, instances>>

\* cog.py:180  is_new = not exists(player, ball), evaluated by the database
IsNew(player, model) ==
    ~\E i \in DOMAIN instances :
        instances[i].player = player /\ instances[i].ball = model.pk

\* cog.py:180-181  the exists query answers; BallInstance.create is awaited
CatchBallExists(a) ==
    /\ att[a].pc = "c_exists"
    /\ att' = [att EXCEPT ![a].pc = "c_create",
                          ![a].is_new = IsNew(att[a].author, active_views[att[a].key].model)]
    /\ UNCHANGED <<active_views, instances, players>>

\* cog.py:181-189  the row BallInstance.create inserts
NewInstance(a) ==
    [ball |-> active_views[att[a].key].model.pk, player |-> att[a].author,
     special |-> att[a].special,
     attack_bonus |-> att[a].bonus_attack, health_bonus |-> att[a].bonus_health,
     spawned_time |-> active_views[att[a].key].time]

\* cog.py:181-250  the row is inserted, catch_ball returns, the "You caught" reply is awaited
CatchBallCreate(a) ==
    /\ att[a].pc = "c_create"
    /\ instances' = Append(instances, NewInstance(a))
    /\ att' = [att EXCEPT ![a].pc = "t_reply"]
    /\ UNCHANGED <<active_views, players>>

\* mutant of TryCatchReplied: the caught session is closed, it leaves the registry
TryCatchRepliedCloses(a) ==
    /\ att[a].pc = "t_reply"
    /\ att' = [att EXCEPT ![a].pc = "done", ![a].outcome = "Accepted"]
    /\ active_views' = [k \in DOMAIN active_views \ {att[a].key} |-> active_views[k]]
    /\ UNCHANGED <<instances, players>>

\* cog.py:245-252  the reply is delivered, then the catch button is disabled
TryCatchReplied(a) ==
    /\ att[a].pc = "t_reply"
    /\ att' = [att EXCEPT ![a].pc = "done", ![a].outcome = "Accepted"]
    /\ active_views' = [active_views EXCEPT ![att[a].key].disabled = TRUE]
    /\ UNCHANGED <<instances, players>>

\* what an exception (or a cancellation) raised by the awaited call leaves behind:
\* try_catch_ball and catch_ball have no except and no finally, cog.py:141-259
OnAwaitRaised(a) ==
    /\ att' = [att EXCEPT ![a].pc = "done", ![a].outcome = "Error",
                          ![a].raised_at = att[a].pc]
    /\ UNCHANGED <<active_views, instances, players>>

\* the awaits of try_catch_ball / catch_ball: cog.py:211, 144, 180, 181, 245
AwaitPcs == {"t_player", "c_player", "c_exists", "c_create", "t_reply"}

\* the awaited collaborator raises (database error, Discord error) or the task is cancelled
AwaitRaises(a) ==
    /\ att[a].pc \in AwaitPcs
    /\ OnAwaitRaised(a)

InitCatch ==
    /\ active_views = [k \in OpenKeys |-> NewCountryBall(BrazilBall, k)]
    /\ att = [a \in Attempts |-> IdleAttempt]
    /\ instances = <<>>
    /\ players = {}
    /\ balls = <<BrazilBall>> /\ ballTable = <<BrazilBall>>
    /\ lc = IdleLoad /\ hnd = <<>> /\ sent = Cardinality(OpenKeys)
    /\ cache = SpawnCache /\ blacklist_guild = {}
    /\ specials = <<>> /\ trig = <<>>
    /\ sc = <<>> /\ vm = <<>> /\ adm = <<>>
    /\ bot = <<>> /\ ic = <<>> /\ ccv = <<>> /\ btn = <<>> /\ rdy = <<>>
    /\ arg = None /\ ret = None

NextCatch ==
    \/ \E a \in Attempts, key \in OpenKeys, msg \in CatchTexts :
           CallTryCatch(a, key, msg, a) /\ UNCHANGED <<spawnVars, specials, trig, funVars, opVars>>
    \/ \E a \in Attempts : TryCatchBall(a) /\ UNCHANGED <<spawnVars, specials, trig, funVars, opVars>>
    \/ \E a \in Attempts :
           CatchBallPlayer(a, 0, 0, 1, 0) /\ UNCHANGED <<spawnVars, specials, trig, funVars, opVars>>
    \/ \E a \in Attempts : CatchBallExists(a) /\ UNCHANGED <<spawnVars, specials, trig, funVars, opVars>>
    \/ \E a \in Attempts : CatchBallCreate(a) /\ UNCHANGED <<spawnVars, specials, trig, funVars, opVars>>
    \/ \E a \in Attempts : TryCatchReplied(a) /\ UNCHANGED <<spawnVars, specials, trig, funVars, opVars>>
    \/ \E a \in Attempts : AwaitRaises(a) /\ UNCHANGED <<spawnVars, specials, trig, funVars, opVars>>

SpecCatch == InitCatch /\ [][NextCatch]_vars

(***************************************************************************)
(* The stat roll and the special variant of one catch, for every content of *)
(* the specials cache and every preset of the spawned ball.                 *)
(***************************************************************************)
\* the presets a spawned ball carries when it was not spawned by on_message: a special
\* and fixed stat overrides (countryball.py:37-39 declares them; their writer is the
\* admin spawn command)
PresetSpecials  == {Null, Some(Hidden)}
AttackOverrides == {Null, Some(0), Some(max_attack_bonus + 1)}
HealthOverrides == {Null, Some(-max_health_bonus)}
PresetBall(k, sp, ab, hb) ==
    [NewCountryBall(BrazilBall, k) EXCEPT !.special = sp, !.atk_bonus = ab, !.hp_bonus = hb]

\* the values offered to random.randint's result; CatchBallPlayer keeps those in range
AttackDraws == (-max_attack_bonus - 1)..(max_attack_bonus + 1)
HealthDraws == (-max_health_bonus - 1)..(max_health_bonus + 1)
RollAttempts == {1}

InitRoll ==
    /\ \E sp \in PresetSpecials, ab \in AttackOverrides, hb \in HealthOverrides :
           active_views = [k \in OpenKeys |-> PresetBall(k, sp, ab, hb)]
    /\ specials \in SpecialTables
    /\ att = [a \in Attempts |-> IdleAttempt]
    /\ instances = <<>>
    /\ players = {}
    /\ balls = <<BrazilBall>> /\ ballTable = <<BrazilBall>>
    /\ lc = IdleLoad /\ hnd = <<>> /\ sent = Cardinality(OpenKeys)
    /\ cache = SpawnCache /\ blacklist_guild = {}
    /\ trig = <<>>
    /\ sc = <<>> /\ vm = <<>> /\ adm = <<>>
    /\ bot = <<>> /\ ic = <<>> /\ ccv = <<>> /\ btn = <<>> /\ rdy = <<>>
    /\ arg = None /\ ret = None

NextRoll ==
    \/ \E a \in RollAttempts, key \in OpenKeys :
           CallTryCatch(a, key, S_brasil, a) /\ UNCHANGED <<spawnVars, specials, trig, funVars, opVars>>
    \/ \E a \in RollAttempts : TryCatchBall(a) /\ UNCHANGED <<spawnVars, specials, trig, funVars, opVars>>
    \/ \E a \in RollAttempts, atk \in AttackDraws, hp \in HealthDraws, now \in Times,
          r \in SpecialDraws :
           CatchBallPlayer(a, atk, hp, now, r)
           /\ UNCHANGED <<spawnVars, specials, trig, funVars, opVars>>
    \/ \E a \in RollAttempts : CatchBallExists(a) /\ UNCHANGED <<spawnVars, specials, trig, funVars, opVars>>
    \/ \E a \in RollAttempts : CatchBallCreate(a) /\ UNCHANGED <<spawnVars, specials, trig, funVars, opVars>>
    \/ \E a \in RollAttempts : TryCatchReplied(a) /\ UNCHANGED <<spawnVars, specials, trig, funVars, opVars>>
    \/ \E a \in RollAttempts : AwaitRaises(a) /\ UNCHANGED <<spawnVars, specials, trig, funVars, opVars>>

SpecRoll == InitRoll /\ [][NextRoll]_vars

(***************************************************************************)
(* check_voice_message, cog.py:261-337: the task on_message starts for each *)
(* message (cog.py:96), which ends in try_catch_ball.  Task v runs          *)
(* try_catch_ball as attempt v.                                             *)
(***************************************************************************)
\* key: the message id whose view the task holds; raised_at: the await whose exception
\* reached the except of check_voice_message
IdleVoice == [pc |-> "idle", key |-> 0, author |-> 0, outcome |-> None, raised_at |-> None]

\* the messages handed to check_voice_message: voice messages of 3 s and of 5 s from two
\* authors, without reference, with a reference without message id (Some(0), cog.py:274
\* `or 0`), to the announcements 1 and 2 and to another message; and one message each
\* without attachment, from a blacklisted author, without the voice flag, without
\* duration.  duration is in tenths of a second.
VoiceMessages ==
    LET voice == [attachments |-> TRUE, blacklisted |-> FALSE, voice |-> TRUE,
                  duration |-> 30, reference |-> Some(1), author |-> 1]
    IN  {[voice EXCEPT !.author = a, !.duration = d, !.reference = ref] :
            a \in {1, 2}, d \in {30, 50}, ref \in {Null, Some(0), Some(1), Some(2), Some(9)}}
        \cup {[voice EXCEPT !.attachments = FALSE], [voice EXCEPT !.blacklisted = TRUE],
              [voice EXCEPT !.voice = FALSE], [voice EXCEPT !.duration = 0]}

\* mutant of ActiveView: a reply to any message finds the latest session
ActiveViewAny(ref) ==
    IF ref # Null /\ ref[1] \in DOMAIN active_views THEN Some(ref[1])
    ELSE IF ref # Null /\ DOMAIN active_views # {}
    THEN Some(CHOOSE k \in DOMAIN active_views : \A j \in DOMAIN active_views : j <= k)
    ELSE Null
\* cog.py:273-277  view: active_views.get(reference.message_id or 0) when the message
\* has a reference, else None; as the key of the view
ActiveView(ref) ==
    IF ref # Null /\ ref[1] \in DOMAIN active_views THEN Some(ref[1]) ELSE Null

\* cog.py:262-293  _check_voice_message up to its first await: a return without reply, a
\* reply (cog.py:279, 284, 287), or Player.get_or_create (cog.py:293)
CheckVoiceMessage(v, m) ==
    LET view == ActiveView(m.reference)
        at(pc) == [IdleVoice EXCEPT !.pc = pc, !.author = m.author]
    IN  /\ vm[v].pc = "idle"
        /\ vm' = [vm EXCEPT ![v] =
                     IF ~m.attachments \/ m.blacklisted \/ ~m.voice \/ m.duration = 0
                     THEN [IdleVoice EXCEPT !.pc = "done", !.outcome = "ignored"]
                     ELSE IF view = Null THEN at("r_nosession")
                     ELSE IF active_views[view[1]].caught THEN at("r_caught")
                     ELSE IF m.duration > 45 THEN at("r_long")
                     ELSE [at("v_player") EXCEPT !.key = view[1]]]
        /\ UNCHANGED <<active_views, att, instances, players>>

\* the replies _check_voice_message awaits before it returns (cog.py:279, 284, 287, 296,
\* 302, 320), and what each tells the caller
ReplyOutcome ==
    [r_nosession |-> "NoSuchSession", r_caught |-> "AlreadyCaught", r_long |-> "TooLong",
     r_noconsent |-> "NoConsent", r_revoked |-> "ConsentRevoked", r_nothing |-> "NothingHeard"]

\* the reply is delivered and _check_voice_message returns
VoiceReplied(v) ==
    /\ vm[v].pc \in DOMAIN ReplyOutcome
    /\ vm' = [vm EXCEPT ![v].pc = "done", ![v].outcome = ReplyOutcome[vm[v].pc]]
    /\ UNCHANGED <<active_views, att, instances, players>>

\* mutant of VoicePlayer: a revoked consent (False) is not tested
VoicePlayerNoRevokedTest(v, consent) ==
    /\ vm[v].pc = "v_player"
    /\ players' = players \cup {vm[v].author}
    /\ vm' = [vm EXCEPT ![v].pc = IF consent = Null THEN "r_noconsent" ELSE "v_read"]
    /\ UNCHANGED <<active_views, att, instances>>
\* cog.py:293-311  Player.get_or_create answers; consent is
\* player.extra_data.get("google-api-consent"); attachment.read is awaited
VoicePlayer(v, consent) ==
    /\ vm[v].pc = "v_player"
    /\ players' = players \cup {vm[v].author}
    /\ vm' = [vm EXCEPT ![v].pc = IF consent = Null THEN "r_noconsent"
                                  ELSE IF consent = Some(FALSE) THEN "r_revoked"
                                  ELSE "v_read"]
    /\ UNCHANGED <<active_views, att, instances>>

\* cog.py:311-315  attachment.read answers and speech_client.recognize is awaited; it
\* answers and redis.incrbyfloat is awaited
VoiceCollaboratorReturned(v) ==
    /\ vm[v].pc \in {"v_read", "v_recognize"}
    /\ vm' = [vm EXCEPT ![v].pc = IF vm[v].pc = "v_read" THEN "v_recognize" ELSE "v_incr"]
    /\ UNCHANGED <<active_views, att, instances, players>>

\* cog.py:315-324, 211  incrbyfloat answers: without results the "Can't hear" reply is
\* awaited; else try_catch_ball is entered with the transcript (results = Some(text))
VoiceCounted(v, results) ==
    /\ vm[v].pc = "v_incr"
    /\ IF results = Null
       THEN /\ vm' = [vm EXCEPT ![v].pc = "r_nothing"]
            /\ UNCHANGED <<active_views, att, instances, players>>
       ELSE /\ vm' = [vm EXCEPT ![v].pc = "try"]
            /\ CallTryCatch(v, vm[v].key, results[1], vm[v].author)

\* cog.py:324, 328  a step of try_catch_ball of task v that ends it without exception
\* also ends _check_voice_message and check_voice_message
TryCatchReturns(v) ==
    /\ vm[v].pc = "try"
    /\ vm' = IF att'[v].pc = "done"
             THEN [vm EXCEPT ![v].pc = "done", ![v].outcome = att'[v].outcome]
             ELSE vm

\* cog.py:327-334  an awaited call of _check_voice_message or of try_catch_ball raises an
\* Exception: the except of check_voice_message logs it and awaits the error reply
VoiceRaises(v) ==
    IF vm[v].pc = "try"
    THEN /\ AwaitRaises(v)
         /\ vm' = [vm EXCEPT ![v].pc = "e_reply", ![v].raised_at = att[v].pc]
    ELSE /\ vm[v].pc \in DOMAIN ReplyOutcome \cup {"v_player", "v_read", "v_recognize", "v_incr"}
         /\ vm' = [vm EXCEPT ![v].pc = "e_reply", ![v].raised_at = vm[v].pc]
         /\ UNCHANGED <<active_views, att, instances, players>>

\* cog.py:334-337  the error reply is delivered, or message.reply raises in the except
\* block, where nothing catches it: the exception leaves check_voice_message
ErrorReplied(v, delivered) ==
    /\ vm[v].pc = "e_reply"
    /\ vm' = [vm EXCEPT ![v].pc = "done",
                        ![v].outcome = IF delivered THEN "ErrorReply" ELSE "Leaked"]
    /\ UNCHANGED <<active_views, att, instances, players>>

\* two announcements of the same definition are open; two voice messages arrive
InitVoice ==
    /\ active_views = [k \in {1, 2} |-> NewCountryBall(BrazilBall, k)]
    /\ att = [a \in Attempts |-> IdleAttempt]
    /\ vm = [v \in {1, 2} |-> IdleVoice]
    /\ instances = <<>>
    /\ players = {}
    /\ balls = <<BrazilBall>> /\ ballTable = <<BrazilBall>>
    /\ lc = IdleLoad /\ hnd = <<>> /\ sent = 2
    /\ cache = SpawnCache /\ blacklist_guild = {}
    /\ specials = <<>> /\ trig = <<>>
    /\ sc = <<>> /\ adm = <<>>
    /\ bot = <<>> /\ ic = <<>> /\ ccv = <<>> /\ btn = <<>> /\ rdy = <<>>
    /\ arg = None /\ ret = None

NextVoice ==
    \/ \E v \in DOMAIN vm, m \in VoiceMessages :
           CheckVoiceMessage(v, m)
           /\ UNCHANGED <<spawnVars, specials, trig, funVars, sc, adm, uiVars>>
    \/ \E v \in DOMAIN vm :
           VoiceReplied(v) /\ UNCHANGED <<spawnVars, specials, trig, funVars, sc, adm, uiVars>>
    \/ \E v \in DOMAIN vm, consent \in {Null, Some(FALSE), Some(TRUE)} :
           VoicePlayer(v, consent) /\ UNCHANGED <<spawnVars, specials, trig, funVars, sc, adm, uiVars>>
    \/ \E v \in DOMAIN vm :
           VoiceCollaboratorReturned(v)
           /\ UNCHANGED <<spawnVars, specials, trig, funVars, sc, adm, uiVars>>
    \/ \E v \in DOMAIN vm, results \in {Null, Some(S_brasil), Some(S_Argentina)} :
           VoiceCounted(v, results) /\ UNCHANGED <<spawnVars, specials, trig, funVars, sc, adm, uiVars>>
    \/ \E v \in DOMAIN vm :
           /\ TryCatchBall(v) /\ TryCatchReturns(v)
           /\ UNCHANGED <<spawnVars, specials, trig, funVars, sc, adm, uiVars>>
    \/ \E v \in DOMAIN vm :
           /\ CatchBallPlayer(v, 0, 0, 1, 0) /\ TryCatchReturns(v)
           /\ UNCHANGED <<spawnVars, specials, trig, funVars, sc, adm, uiVars>>
    \/ \E v \in DOMAIN vm :
           /\ CatchBallExists(v) /\ TryCatchReturns(v)
           /\ UNCHANGED <<spawnVars, specials, trig, funVars, sc, adm, uiVars>>
    \/ \E v \in DOMAIN vm :
           /\ CatchBallCreate(v) /\ TryCatchReturns(v)
           /\ UNCHANGED <<spawnVars, specials, trig, funVars, sc, adm, uiVars>>
    \/ \E v \in DOMAIN vm :
           /\ TryCatchReplied(v) /\ TryCatchReturns(v)
           /\ UNCHANGED <<spawnVars, specials, trig, funVars, sc, adm, uiVars>>
    \/ \E v \in DOMAIN vm :
           VoiceRaises(v) /\ UNCHANGED <<spawnVars, specials, trig, funVars, sc, adm, uiVars>>
    \/ \E v \in DOMAIN vm, delivered \in BOOLEAN :
           ErrorReplied(v, delivered) /\ UNCHANGED <<spawnVars, specials, trig, funVars, sc, adm, uiVars>>

SpecVoice == InitVoice /\ [][NextVoice]_vars
\* every task that can take a step eventually takes one: the event loop runs each ready
\* coroutine, and every awaited call answers or raises
SpecVoiceFair == SpecVoice /\ WF_vars(NextVoice)

(***************************************************************************)
(* Properties of the catch path (SpecCatch).                                *)
(***************************************************************************)
\* the attempts made on session k
AttemptsOn(k) == {a \in Attempts : att[a].pc # "idle" /\ att[a].key = k}
\* the BallInstance rows created for session k (spawned_time is the ball's own time)
InstancesOf(k) ==
    {i \in DOMAIN instances : instances[i].spawned_time = active_views[k].time}
\* the awaits of catch_ball and of the final reply: the attempt holds the catch
CatchPathPcs == {"c_player", "c_exists", "c_create", "t_reply"}
\* the awaits of the persistence step catch_ball (cog.py:144, 180, 181)
PersistPcs == {"c_player", "c_exists", "c_create"}
AcceptedOn(k) == {a \in AttemptsOn(k) : att[a].outcome = "Accepted"}
Text(a) == att[a].msg
MatchingAttempt(a) == NameMatches(att[a].msg, active_views[att[a].key].model)

\* C1: for one open session, at most one attempt is ever Accepted and at most one
\* BallInstance is created; and when N >= 1 attempts, all with a matching name, have
\* all completed (no awaited collaborator raised), exactly one of them is Accepted,
\* exactly one BallInstance exists and every other attempt got "I was caught already!".
C1_ExactlyOneAccepted ==
    \A k \in DOMAIN active_views :
        /\ Cardinality(InstancesOf(k)) <= 1
        /\ Cardinality(AcceptedOn(k)) <= 1
        /\ ( /\ AttemptsOn(k) # {}
             /\ \A a \in AttemptsOn(k) :
                    /\ MatchingAttempt(a)
                    /\ att[a].pc = "done"
                    /\ att[a].outcome # "Error" )
           => /\ Cardinality(AcceptedOn(k)) = 1
              /\ Cardinality(InstancesOf(k)) = 1
              /\ \A a \in AttemptsOn(k) \ AcceptedOn(k) : att[a].outcome = "AlreadyCaught"

\* C1 witness: MaxAttempts matching attempts on one session all completed, one Accepted
C1_Witness ==
    \E k \in DOMAIN active_views :
        /\ AttemptsOn(k) = Attempts
        /\ \A a \in Attempts : MatchingAttempt(a) /\ att[a].pc = "done"
        /\ Cardinality(AcceptedOn(k)) = 1
        /\ Cardinality({a \in Attempts : att[a].outcome = "AlreadyCaught"}) = MaxAttempts - 1
        /\ {Text(a) : a \in Attempts} = {S_BRAZIL_sp, S_brasil}

\* C2: the caught flag is monotone (once true it stays true and the session stays
\* registered), and once it is true no attempt that has not yet tested the flag
\* enters the catch path, is Accepted or creates a BallInstance: a row for the
\* session is only ever inserted by the attempt that already held the catch.
C2_Step ==
    \A k \in DOMAIN active_views :
        active_views[k].caught =>
            /\ k \in DOMAIN active_views'
            /\ active_views'[k].caught
            /\ \A a \in Attempts :
                   (att[a].pc \in {"idle", "t_player"} /\ att'[a].key = k)
                   => /\ att'[a].pc \notin CatchPathPcs
                      /\ att'[a].outcome # "Accepted"
            /\ Len(instances') > Len(instances)
               => \E a \in Attempts : att[a].key = k /\ att[a].pc = "c_create"
C2_CaughtIsTerminal == [][C2_Step]_vars

\* C2 witness: a matching attempt that tested the flag after the catch was refused
C2_Witness ==
    \E k \in DOMAIN active_views : \E a, b \in AttemptsOn(k) :
        /\ att[a].outcome = "Accepted"
        /\ att[b].outcome = "AlreadyCaught"
        /\ MatchingAttempt(b)
        /\ active_views[k].caught

\* the scenario of C3: three callers a1, a2, a3 on one session whose acceptable names
\* are {brazil, brasil}, with the texts "BRAZIL ", "brasil", "Argentina", all completed,
\* and no other attempt on that session
C3_Scenario(k, a1, a2, a3) ==
    /\ PossibleNames(active_views[k].model) = {S_brazil, S_brasil}
    /\ AttemptsOn(k) = {a1, a2, a3}
    /\ Text(a1) = S_BRAZIL_sp /\ Text(a2) = S_brasil /\ Text(a3) = S_Argentina
    /\ \A a \in {a1, a2, a3} : att[a].pc = "done" /\ att[a].outcome # "Error"
C3_FirstTwo(a1, a2) ==
    {att[a1].outcome, att[a2].outcome} = {"Accepted", "AlreadyCaught"}

\* C3 as claimed: in every interleaving one of the first two is Accepted, the other
\* gets AlreadyCaught, and the third ("Argentina") gets WrongName.
C3_Original ==
    \A k \in DOMAIN active_views : \A a1, a2, a3 \in Attempts :
        C3_Scenario(k, a1, a2, a3)
        => C3_FirstTwo(a1, a2) /\ att[a3].outcome = "WrongName"

\* C3 amended: one of the first two is Accepted and the other gets AlreadyCaught; the
\* third gets WrongName when its try_catch_ball tests the flag before the winner has
\* set it, and AlreadyCaught (never Accepted) when it tests the flag after.
C3_AmendedInv ==
    \A k \in DOMAIN active_views : \A a1, a2, a3 \in Attempts :
        C3_Scenario(k, a1, a2, a3)
        => C3_FirstTwo(a1, a2) /\ att[a3].outcome \in {"WrongName", "AlreadyCaught"}
C3_AmendedStep ==
    \A a \in Attempts :
        (att[a].pc = "t_player" /\ att'[a].pc = "done" /\ att'[a].outcome # "Error")
        => att'[a].outcome =
               IF active_views[att[a].key].caught THEN "AlreadyCaught" ELSE "WrongName"
C3_Amended == []C3_AmendedInv /\ [][C3_AmendedStep]_vars

\* C3 witness: the scenario completed with the third attempt refused as AlreadyCaught
C3_Witness ==
    \E k \in DOMAIN active_views : \E a1, a2, a3 \in Attempts :
        /\ C3_Scenario(k, a1, a2, a3)
        /\ att[a3].outcome = "AlreadyCaught"
        /\ att[a1].outcome = "AlreadyCaught" /\ att[a2].outcome = "Accepted"

\* C4 as claimed: when the persistence step of a matching attempt raised (or was
\* cancelled), the session is left with caught = false unless another attempt has
\* taken the catch since.
C4_FailedPersistLeavesUncaught ==
    \A a \in Attempts :
        (att[a].outcome = "Error" /\ att[a].raised_at \in PersistPcs)
        => \/ ~active_views[att[a].key].caught
           \/ \E b \in AttemptsOn(att[a].key) \ {a} :
                  att[b].pc \in CatchPathPcs \/ att[b].outcome = "Accepted"
                  \/ (att[b].outcome = "Error" /\ att[b].raised_at \in CatchPathPcs)

\* C26: an attempt on an uncaught session whose text matches no acceptable name gets
\* WrongName and its step leaves the session (caught flag, catch button) and the
\* BallInstance table unchanged; a session that only had wrong names is uncaught, enabled
\* and without instance; and a matching attempt that comes after wrong names only, and
\* completes without a collaborator failure, is Accepted.
C26_Step ==
    \A a \in Attempts :
        (att[a].pc = "t_player" /\ att'[a].pc = "done" /\ att'[a].outcome # "Error")
        => IF active_views[att[a].key].caught
           THEN att'[a].outcome = "AlreadyCaught"
           ELSE /\ ~MatchingAttempt(a)
                /\ att'[a].outcome = "WrongName"
                /\ active_views' = active_views /\ instances' = instances
C26_Inv ==
    \A k \in DOMAIN active_views :
        /\ (\A b \in AttemptsOn(k) : ~MatchingAttempt(b))
           => /\ ~active_views[k].caught /\ ~active_views[k].disabled
              /\ InstancesOf(k) = {}
        /\ \A a \in AttemptsOn(k) :
               ( /\ MatchingAttempt(a) /\ att[a].pc = "done" /\ att[a].outcome # "Error"
                 /\ \A b \in AttemptsOn(k) \ {a} : ~MatchingAttempt(b) )
               => att[a].outcome = "Accepted"
C22_AfterRemoval ==
    \A v \in DOMAIN vm, m \in VoiceMessages :
        ( /\ m.reference # Null /\ m.reference[1] \notin DOMAIN active_views
          /\ CheckVoiceMessage(v, m) )
        => vm'[v].pc \in {"done", "r_nosession"}
C22_SessionEventuallyRemoved ==
    /\ \A k \in {1, 2} : <>(k \notin DOMAIN active_views)
    /\ [][C22_AfterRemoval]_vars

\* C24 as claimed: whatever awaited call of a voice catch attempt raises, the exception
\* ends at the except of check_voice_message with the error reply delivered, and no
\* exception leaves check_voice_message.
C24_NoExceptionLeaks ==
    \A v \in DOMAIN vm :
        /\ vm[v].outcome # "Leaked"
        /\ (vm[v].pc = "done" /\ vm[v].raised_at # None) => vm[v].outcome = "ErrorReply"

\* the catches of player p that catch_ball flagged as new (all sessions of the scenario
\* are of one definition)
FlaggedNew(p) ==
    {a \in DOMAIN vm : /\ att[a].author = p /\ att[a].is_new
                       /\ att[a].pc = "t_reply" \/ att[a].outcome = "Accepted"}

\* C25 as claimed: the flag of a catch is true iff the player owns no instance of the
\* definition when the instance of this catch is created, and for one player and one
\* definition at most one catch is flagged as new, however the catches interleave.
C25_Step ==
    \A a \in DOMAIN vm :
        (att[a].pc = "c_create" /\ att'[a].pc = "t_reply")
        => (att[a].is_new <=> IsNew(att[a].author, active_views[att[a].key].model))
C25_FlaggedOnce == \A p \in {1, 2} : Cardinality(FlaggedNew(p)) <= 1
C25_FirstTimeOwned == []C25_FlaggedOnce /\ [][C25_Step]_vars

\* a voice message (with attachment, voice flag and duration, from an author who is not
\* blacklisted) that replies to no message or to one that is not an open announcement
RepliesToNoSession(m) ==
    /\ m.attachments /\ ~m.blacklisted /\ m.voice /\ m.duration # 0
    /\ m.reference = Null \/ m.reference[1] \notin DOMAIN active_views

\* C29: a voice message without reply reference, or replying to a message that is not a
\* key of active_views, is answered with the "reply to the spawned message" notice
\* (NoSuchSession; the error reply when sending the notice raises): it never enters
\* try_catch_ball, creates no BallInstance and changes no session.
C29_Step ==
    /\ \A v \in DOMAIN vm, m \in VoiceMessages :
           (RepliesToNoSession(m) /\ CheckVoiceMessage(v, m))
           => /\ vm'[v].pc = "r_nosession"
              /\ att' = att /\ instances' = instances /\ active_views' = active_views
    /\ \A v \in DOMAIN vm :
           (vm[v].pc = "r_nosession" /\ vm'[v] # vm[v])
           => /\ vm'[v].outcome = "NoSuchSession" \/ vm'[v].pc = "e_reply"
              /\ att' = att /\ instances' = instances /\ active_views' = active_views
C29_NoSession ==
    \A v \in DOMAIN vm :
        (vm[v].outcome = "NoSuchSession" \/ vm[v].raised_at = "r_nosession")
        => att[v].pc = "idle"
C29_UnknownReference == []C29_NoSession /\ [][C29_Step]_vars

\* C29 witness: both voice messages got the notice; no session is caught, no instance
C29_Witness ==
    /\ \A v \in DOMAIN vm : vm[v].outcome = "NoSuchSession"
    /\ \A k \in DOMAIN active_views : ~active_views[k].caught
    /\ instances = <<>>

\* the conditions _check_voice_message tests on the message before it looks the player
\* up, against the registry as it is when the message is checked
PassesMessageTests(m) ==
    /\ m.attachments /\ ~m.blacklisted /\ m.voice /\ m.duration # 0
    /\ m.reference # Null /\ m.reference[1] \in DOMAIN active_views
    /\ ~active_views[m.reference[1]].caught
    /\ m.duration <= 45
\* the task has read the attachment for the recognition request, or is further
RecognitionPcs == {"v_read", "v_recognize", "v_incr", "try"}

\* C32: the speech-recognition request and the increment of the billed seconds are
\* issued for a voice message only if, when checked, the author was not blacklisted, the
\* message replied to a key of active_views, that session was not caught, the
\* attachment lasted at most 4.5 s and the recorded consent was neither missing nor
\* False; a message failing one of them never reaches try_catch_ball.
C32_Step ==
    /\ \A v \in DOMAIN vm, m \in VoiceMessages :
           CheckVoiceMessage(v, m)
           => /\ PassesMessageTests(m) <=> vm'[v].pc = "v_player"
              /\ vm'[v].pc \notin RecognitionPcs /\ att' = att
    /\ \A v \in DOMAIN vm, consent \in {Null, Some(FALSE), Some(TRUE)} :
           VoicePlayer(v, consent)
           => /\ consent = Some(TRUE) <=> vm'[v].pc = "v_read"
              /\ vm'[v].pc \notin RecognitionPcs \ {"v_read"} /\ att' = att
    /\ \A v \in DOMAIN vm :
           /\ (vm[v].pc # "v_player" /\ vm'[v].pc = "v_player") => vm[v].pc = "idle"
           /\ (vm[v].pc # "v_read" /\ vm'[v].pc = "v_read") => vm[v].pc = "v_player"
           /\ (vm[v].pc # "v_recognize" /\ vm'[v].pc = "v_recognize") => vm[v].pc = "v_read"
           /\ (vm[v].pc # "v_incr" /\ vm'[v].pc = "v_incr") => vm[v].pc = "v_recognize"
           /\ (vm[v].pc # "try" /\ vm'[v].pc = "try") => vm[v].pc = "v_incr"
           /\ (att[v].pc = "idle" /\ att'[v].pc # "idle") => vm[v].pc = "v_incr"
C32_NoAttemptWithoutRecognition ==
    \A v \in DOMAIN vm :
        (vm[v].pc \notin {"try", "e_reply", "done"}
            \/ vm[v].outcome \in ({"ignored"} \cup Range(ReplyOutcome)) \ {"AlreadyCaught"}
            \/ vm[v].raised_at \in DOMAIN ReplyOutcome \cup {"v_player", "v_read", "v_recognize", "v_incr"})
        => att[v].pc = "idle"
C32_RecognitionOnlyAfterTests == []C32_NoAttemptWithoutRecognition /\ [][C32_Step]_vars

\* C32 witness: one message passed every test and its recognition request was counted;
\* the other one was stopped by the revoked consent and entered no attempt
C32_Witness ==
    \E v, w \in DOMAIN vm :
        /\ vm[v].pc = "try" /\ att[v].pc # "idle"
        /\ vm[w].outcome = "ConsentRevoked" /\ att[w].pc = "idle"

(***************************************************************************)
(* Properties of the stat roll and of the special variant (SpecRoll).       *)
(***************************************************************************)
\* the attempts whose catch_ball has computed its bonuses and its special
Rolled(a) ==
    \/ att[a].pc \in {"c_exists", "c_create", "t_reply"}
    \/ att[a].outcome = "Accepted"
    \/ att[a].raised_at \in {"c_exists", "c_create", "t_reply"}
BallOf(a) == active_views[att[a].key]
\* the window [start, end] of the variant v holds t (a null end of the window is open)
InWindow(v, t) ==
    /\ v.start_date # Null => v.start_date[1] <= t
    /\ v.end_date # Null => t <= v.end_date[1]
\* the attempt that created the BallInstance row i (one attempt per author)
CreatorOf(i) == CHOOSE a \in Attempts : att[a].author = instances[i].player /\ Rolled(a)

\* C11: when the spawned ball carries no preset special, the special resolved by the
\* catch, and stored on the instance it creates, is either none or a cached variant
\* whose window holds the catch time; it is none when no cached variant is active then.
C11_SpecialActiveAtCatch ==
    /\ \A a \in Attempts :
           (Rolled(a) /\ BallOf(a).special = Null)
           => /\ att[a].special # Null
                 => /\ att[a].special[1] \in Range(specials)
                    /\ InWindow(att[a].special[1], att[a].now)
              /\ (\A i \in DOMAIN specials : ~InWindow(specials[i], att[a].now))
                 => att[a].special = Null
    /\ \A i \in DOMAIN instances : instances[i].special = att[CreatorOf(i)].special

\* C11 witness: an instance caught at time 2 carries the variant whose window is [2, 3]
C11_Witness ==
    \E i \in DOMAIN instances :
        /\ instances[i].special = Some(Summer)
        /\ att[CreatorOf(i)].now = 2
        /\ BallOf(CreatorOf(i)).special = Null

\* the number of draws 0 <= r < total for which random.choices returns the i-th outcome
DrawsFor(pop, i) ==
    Cardinality({r \in 0..(CumSum(SpecialWeights(pop), Len(pop) + 1) - 1) :
                    Choices(SpecialChoices(pop), SpecialWeights(pop), r)
                        = SpecialChoices(pop)[i]})
SumRarity(pop) == CumSum([i \in DOMAIN pop |-> pop[i].rarity], Len(pop))

\* C12: for every non-empty active set (rarities in [0, 1]) the draw is over the active
\* variants plus none; each active variant weighs its rarity and none weighs the sum of
\* (1 - rarity), so the weights total the number of active variants; each outcome is
\* returned for a share of the draws equal to its weight, and with the single active
\* variant of rarity 0.2 none gets 80% of them.
C12_WeightsOfDraw ==
    \A now \in Times :
        LET pop == Population(specials, now)
            n   == Len(pop)
            w   == SpecialWeights(pop)
            c   == SpecialChoices(pop)
        IN  pop # <<>> =>
                /\ Len(w) = n + 1 /\ Len(c) = n + 1
                /\ c[n + 1] = Null
                /\ \A i \in 1..n : c[i] = Some(pop[i]) /\ w[i] = pop[i].rarity
                /\ w[n + 1] = n * One - SumRarity(pop)
                /\ CumSum(w, n + 1) = n * One
                /\ \A i \in 1..(n + 1) : DrawsFor(pop, i) = w[i]
                /\ pop = <<Golden>> => DrawsFor(pop, n + 1) * 10 = 8 * CumSum(w, n + 1)
                /\ \A a \in Attempts :
                       (Rolled(a) /\ BallOf(a).special = Null /\ att[a].now = now)
                       => \E i \in 1..(n + 1) : att[a].special = c[i] /\ w[i] > 0

\* C12 witness: with the single active variant of rarity 0.2 a catch resolved to none
C12_Witness ==
    \E a \in Attempts :
        /\ att[a].outcome = "Accepted"
        /\ specials = <<Golden>> /\ BallOf(a).special = Null
        /\ att[a].special = Null

\* every active variant has rarity 1
AllFull(pop) == pop # <<>> /\ \A i \in DOMAIN pop : pop[i].rarity = One

\* C13: when every active variant has rarity 1 (common weight 0) the selection raises
\* nothing and never returns none.
C13_ZeroCommonWeight ==
    \A a \in Attempts :
        ( /\ att[a].pc # "idle"
          /\ BallOf(a).special = Null
          /\ AllFull(Population(specials, att[a].now)) )
        => /\ att[a].raised_at # "choices"
           /\ Rolled(a) => att[a].special # Null

\* C13 witness: two variants of rarity 1 were active and the catch got the second
C13_Witness ==
    \E a \in Attempts :
        /\ att[a].outcome = "Accepted"
        /\ specials = <<Launch, Forever>> /\ att[a].now = 2
        /\ BallOf(a).special = Null
        /\ att[a].special = Some(Forever)

\* catch_ball of attempt a rolls the pair (x, y) of bonuses
RollsPair(a, x, y) ==
    \E now \in Times, r \in SpecialDraws :
        /\ CatchBallPlayer(a, x, y, now, r)
        /\ att'[a].pc = "c_exists"
        /\ att'[a].bonus_attack = x /\ att'[a].bonus_health = y
        /\ UNCHANGED <<spawnVars, specials, trig, funVars, opVars>>
NoOverride(ball) == ball.atk_bonus = Null /\ ball.hp_bonus = Null

\* C15: without fixed overrides the attack bonus is drawn in
\* [-max_attack_bonus, +max_attack_bonus] and the health bonus in
\* [-max_health_bonus, +max_health_bonus], both ends included, and every pair of
\* in-range values is a possible outcome of the roll.
C15_BonusDraws ==
    \A a \in Attempts :
        /\ (Rolled(a) /\ NoOverride(BallOf(a)))
           => /\ att[a].bonus_attack \in -max_attack_bonus..max_attack_bonus
              /\ att[a].bonus_health \in -max_health_bonus..max_health_bonus
        /\ (att[a].pc = "c_player" /\ NoOverride(BallOf(a)))
           => \A x \in -max_attack_bonus..max_attack_bonus,
                 y \in -max_health_bonus..max_health_bonus : ENABLED RollsPair(a, x, y)

\* C15 witness: an instance with the lowest attack bonus and the highest health bonus
C15_Witness ==
    \E i \in DOMAIN instances :
        /\ NoOverride(BallOf(CreatorOf(i)))
        /\ instances[i].attack_bonus = -max_attack_bonus
        /\ instances[i].health_bonus = max_health_bonus

\* C16: when the spawned ball (with the special preset on it) carries fixed stat
\* overrides, the bonuses of the created instance are exactly the overrides, whatever
\* random.randint returns.
C16_OverridesUsed ==
    /\ \A a \in Attempts :
           Rolled(a)
           => /\ BallOf(a).atk_bonus # Null => att[a].bonus_attack = BallOf(a).atk_bonus[1]
              /\ BallOf(a).hp_bonus # Null => att[a].bonus_health = BallOf(a).hp_bonus[1]
    /\ \A i \in DOMAIN instances :
           /\ instances[i].attack_bonus = att[CreatorOf(i)].bonus_attack
           /\ instances[i].health_bonus = att[CreatorOf(i)].bonus_health

\* C16 witness: an instance of a ball with a preset special and both overrides
C16_Witness ==
    \E i \in DOMAIN instances :
        /\ BallOf(CreatorOf(i)).special = Some(Hidden)
        /\ BallOf(CreatorOf(i)).atk_bonus = Some(0)
        /\ BallOf(CreatorOf(i)).hp_bonus = Some(-max_health_bonus)
        /\ instances[i].special = Some(Hidden)
        /\ instances[i].attack_bonus = 0
        /\ instances[i].health_bonus = -max_health_bonus

\* C17 as claimed: every created BallInstance, with or without a fixed override on the
\* spawned ball, has its attack bonus and its health bonus within the configured bounds.
C17_BonusWithinBounds ==
    \A i \in DOMAIN instances :
        /\ instances[i].attack_bonus \in -max_attack_bonus..max_attack_bonus
        /\ instances[i].health_bonus \in -max_health_bonus..max_health_bonus

(***************************************************************************)
(* The catalog and its reload, bot.py:187-224; get_random and spawn,        *)
(* countryball.py:41-111; on_message, cog.py:84-114.                        *)
(***************************************************************************)
\* bound of the spawn scenario: the number of on_message invocations
MaxMessages == 2
Messages == 1..MaxMessages

\* contents the Ball table takes in the scenarios (Ball.all() returns its rows in order)
BallTables == {<<>>, <<BrazilBall, GermanyBall, RetiredBall>>, <<RetiredBall>>,
               <<ZeroBall, RetiredBall>>}

\* countryball.py:43  list(filter(lambda m: m.enabled, balls.values()))
EnabledBalls(cat) == SelectSeq(cat, LAMBDA m : m.enabled)

\* itertools.accumulate(weights)[i-1]: the sum of the first i rarities
RECURSIVE CumWeight(_, _)
CumWeight(pop, i) == IF i = 0 THEN 0 ELSE CumWeight(pop, i-1) + pop[i].rarity
TotalWeight(pop) == CumWeight(pop, Len(pop))

\* mutant of WeightedChoice: random.choice, the weights are not used
UniformChoice(pop, r) == pop[(r % Len(pop)) + 1]
\* random.choices(population, weights, k=1)[0] for the draw r = floor(random() * total),
\* 0 <= r < total: population[bisect(cum_weights, r)], the first entry whose cumulated
\* weight exceeds r
WeightedChoice(pop, r) ==
    pop[CHOOSE i \in 1..Len(pop) :
            /\ CumWeight(pop, i) > r
            /\ \A j \in 1..(i-1) : CumWeight(pop, j) <= r]

\* countryball.py:41-48  what get_random raises on the catalog cat, None when it returns:
\* RuntimeError("No ball to spawn") on an empty list, and random.choices raises
\* ValueError("Total of weights must be greater than zero")
GetRandomNoEmptyTest(cat) ==
    IF EnabledBalls(cat) = <<>> THEN "IndexError"
    ELSE IF TotalWeight(EnabledBalls(cat)) <= 0 THEN "ValueError"
    ELSE None
GetRandomRaises(cat) ==
    IF EnabledBalls(cat) = <<>> THEN "NoBall"
    ELSE IF TotalWeight(EnabledBalls(cat)) <= 0 THEN "ValueError"
    ELSE None

\* countryball.py:46-48  the ball get_random returns for the draw r
GetRandom(cat, r) == WeightedChoice(EnabledBalls(cat), r)

\* the values floor(random() * total) takes on the catalogs of the scenarios
Draws == UNION {0..(TotalWeight(EnabledBalls(t)) - 1) : t \in BallTables}

IdleHandler == [pc |-> "idle", guild |-> None, ball |-> None, outcome |-> None]

\* on_message returns (or an exception leaves it): its locals are gone
Return(h, outcome) ==
    hnd' = [hnd EXCEPT ![h] = [IdleHandler EXCEPT !.pc = "done", !.outcome = outcome]]

\* mutant of OnMessage: the blacklist of guilds is not consulted
OnMessageNoBlacklist(h, guild, is_bot, webhook) ==
    /\ hnd[h].pc = "idle"
    /\ IF is_bot \/ webhook \/ guild = None \/ guild \notin DOMAIN cache
       THEN Return(h, "dropped")
       ELSE hnd' = [hnd EXCEPT ![h].pc = "handle", ![h].guild = guild]
    /\ UNCHANGED <<balls, ballTable, lc, sent, cache, blacklist_guild, active_views>>

\* cog.py:85-98  on_message up to the await of spawn_manager.handle_message, for a
\* message of `guild` (None outside a guild) whose author is a bot (is_bot) or that has
\* a webhook_id (webhook); the message carries no voice attachment, so the
\* check_voice_message task it starts returns at cog.py:262
OnMessage(h, guild, is_bot, webhook) ==
    /\ hnd[h].pc = "idle"
    /\ IF is_bot \/ webhook \/ guild = None \/ guild \notin DOMAIN cache
          \/ guild \in blacklist_guild
       THEN Return(h, "dropped")
       ELSE hnd' = [hnd EXCEPT ![h].pc = "handle", ![h].guild = guild]
    /\ UNCHANGED <<balls, ballTable, lc, sent, cache, blacklist_guild, active_views>>

(***************************************************************************)
(* The spawn manager behind spawn_manager.handle_message (cog.py:50, 98):   *)
(* the per-guild trigger Idle(accumulator, threshold), created on the first *)
(* message of a guild; a message adds 1 and the trigger fires when the      *)
(* accumulator has reached the threshold, which resets the accumulator to 0 *)
(* and draws a new threshold.  last_spawn is the time of the last fire, as  *)
(* its ordinal among the fires of the guild (0: none yet).                  *)
(***************************************************************************)
\* the thresholds the trigger draws
Thresholds == {1, 3}
NewTrigger(thr) == [accumulator |-> 0, threshold |-> thr, last_spawn |-> 0]
\* the trigger state of guild g, created with the threshold thr0 when g is new
TriggerOf(g, thr0) == IF g \in DOMAIN trig THEN trig[g] ELSE NewTrigger(thr0)
\* mutant of TriggerFired: the accumulator is kept when the trigger fires
TriggerFiredNoReset(t, thr) ==
    [accumulator |-> t.accumulator + 1, threshold |-> thr, last_spawn |-> t.last_spawn + 1]
\* the trigger after it fired: reset, with the newly drawn threshold thr
TriggerFired(t, thr) == [NewTrigger(thr) EXCEPT !.last_spawn = t.last_spawn + 1]
\* mutant of TriggerCounted: the message is not counted
TriggerNotCounted(t) == t
\* the trigger after a message that does not fire it
TriggerCounted(t) == [t EXCEPT !.accumulator = t.accumulator + 1]
TriggerFires(t) == t.accumulator + 1 >= t.threshold
\* the thresholds a new trigger of guild g can start with, and those a fired trigger can
\* draw (an existing trigger keeps its threshold until it fires)
InitialThresholds(g) == IF g \in DOMAIN trig THEN {trig[g].threshold} ELSE Thresholds
DrawnThresholds(t) == IF TriggerFires(t) THEN Thresholds ELSE {t.threshold}
\* handle_message for one message of guild g, as one step: result tells whether the
\* trigger fired
SpawnManagerHandleMessage(g, result, thr0, thr) ==
    LET t == TriggerOf(g, thr0)
    IN  /\ result = TriggerFires(t)
        /\ trig' = [k \in DOMAIN trig \cup {g} |->
                        IF k # g THEN trig[k]
                        ELSE IF result THEN TriggerFired(t, thr) ELSE TriggerCounted(t)]

\* mutant of LostChannel: the guild stays in the cache
LostChannelKeepsCache(h) ==
    /\ UNCHANGED cache
    /\ Return(h, "lost_channel")

\* cog.py:108-111  the cached channel is gone: the guild leaves the cache
LostChannel(h) ==
    /\ cache' = [g \in DOMAIN cache \ {hnd[h].guild} |-> cache[g]]
    /\ Return(h, "lost_channel")

\* countryball.py:94-98  spawn with the permissions: the CatchView is built and
\* channel.send is awaited; nothing is registered yet
SpawnSendEager(h, ball) ==
    /\ hnd' = [hnd EXCEPT ![h].pc = "send", ![h].ball = ball]
    /\ active_views' = [k \in DOMAIN active_views \cup {0} |->
                            IF k = 0 THEN NewCountryBall(ball, 0) ELSE active_views[k]]
SpawnSend(h, ball) ==
    /\ hnd' = [hnd EXCEPT ![h].pc = "send", ![h].ball = ball]
    /\ UNCHANGED active_views

\* countryball.py:105-106, 111  no permission to send or attach: spawn returns False
SpawnNoPermission(h) ==
    /\ Return(h, "spawn_false")
    /\ UNCHANGED active_views

\* cog.py:98-114 with countryball.py:41-98  on_message from the return of handle_message
\* (result: whether the trigger fired) to the await of channel.send.  get_random has no
\* await of its own, so channel lookup, get_random and the head of spawn are one step.
HandleMessage(h, result, channel_found, permitted, r) ==
    /\ hnd[h].pc = "handle"
    /\ IF ~result
       THEN Return(h, "no_spawn") /\ UNCHANGED <<cache, active_views>>
       ELSE IF hnd[h].guild \notin DOMAIN cache
       THEN Return(h, "KeyError") /\ UNCHANGED <<cache, active_views>>
       ELSE IF ~channel_found
       THEN LostChannel(h) /\ UNCHANGED active_views
       ELSE IF GetRandomRaises(balls) # None
       THEN Return(h, GetRandomRaises(balls)) /\ UNCHANGED <<cache, active_views>>
       ELSE /\ r < TotalWeight(EnabledBalls(balls))
            /\ UNCHANGED cache
            /\ IF permitted
               THEN SpawnSend(h, GetRandom(balls, r))
               ELSE SpawnNoPermission(h)
    /\ UNCHANGED <<balls, ballTable, lc, sent, blacklist_guild>>

\* countryball.py:26-28  add_view: active_views[message.id] = view
AddView(id, ball) ==
    active_views' = [k \in DOMAIN active_views \cup {id} |->
                        IF k = id THEN NewCountryBall(ball, id) ELSE active_views[k]]

\* countryball.py:98-104  channel.send returned the announcement message (its id is
\* fresh): the view is registered under it and spawn returns the view
SpawnSent(h) ==
    /\ hnd[h].pc = "send"
    /\ sent' = sent + 1
    /\ AddView(sent + 1, hnd[h].ball)
    /\ Return(h, "spawned")
    /\ UNCHANGED <<balls, ballTable, lc, cache, blacklist_guild>>

\* countryball.py:107-111  channel.send raised discord.Forbidden or discord.HTTPException:
\* logged, spawn returns False
SpawnSendFailed(h) ==
    /\ hnd[h].pc = "send"
    /\ Return(h, "spawn_false")
    /\ UNCHANGED <<active_views, sent, balls, ballTable, lc, cache, blacklist_guild>>

\* bot.py:194  balls[ball.pk] = ball on the dict cat: an existing key keeps its place
StoreBall(cat, ball) ==
    IF \E i \in DOMAIN cat : cat[i].pk = ball.pk
    THEN [i \in DOMAIN cat |-> IF cat[i].pk = ball.pk THEN ball ELSE cat[i]]
    ELSE Append(cat, ball)

\* bot.py:193-194  for ball in rows: balls[ball.pk] = ball
RECURSIVE StoreAll(_, _)
StoreAll(cat, rows) ==
    IF rows = <<>> THEN cat ELSE StoreAll(StoreBall(cat, Head(rows)), Tail(rows))

\* bot.py:192-193  load_cache: balls.clear(), then Ball.all() is awaited
LoadCacheClear ==
    /\ lc.pc = "idle"
    /\ lc' = [pc |-> "balls", old |-> balls]
    /\ balls' = <<>>
    /\ UNCHANGED <<ballTable, hnd, sent, cache, blacklist_guild, active_views>>

\* bot.py:193-198  Ball.all() answered: every row is stored under its pk; the other
\* tables follow
LoadCacheFill ==
    /\ lc.pc = "balls"
    /\ balls' = StoreAll(balls, ballTable)
    /\ lc' = [lc EXCEPT !.pc = "rest"]
    /\ UNCHANGED <<ballTable, hnd, sent, cache, blacklist_guild, active_views>>

\* bot.py:197-218  regimes, economies, specials and the blacklist of users are
\* reloaded; then self.blacklist_guild = set() and BlacklistedGuild.all() is awaited
LoadCacheRest ==
    /\ lc.pc = "rest"
    /\ lc' = [lc EXCEPT !.pc = "guilds"]
    /\ blacklist_guild' = {}
    /\ UNCHANGED <<balls, ballTable, hnd, sent, cache, active_views>>

\* bot.py:218-224  BlacklistedGuild.all() answered with `rows` (the discord_id of each
\* row): every id is added to blacklist_guild and load_cache returns
LoadCacheGuilds(rows) ==
    /\ lc.pc = "guilds"
    /\ lc' = [lc EXCEPT !.pc = "idle"]
    /\ blacklist_guild' = blacklist_guild \cup rows
    /\ UNCHANGED <<balls, ballTable, hnd, sent, cache, active_views>>

\* the Ball table is edited (admin panel; admin/cog.py:349 ball.save())
EditBallTable(t) ==
    /\ t # ballTable
    /\ ballTable' = t
    /\ UNCHANGED <<balls, lc, hnd, sent, cache, blacklist_guild, active_views>>

\* after on_ready (bot.py:281) loaded the catalog and the spawner cached the guild
InitSpawn ==
    /\ ballTable \in BallTables
    /\ balls = ballTable
    /\ lc = IdleLoad
    /\ hnd = [h \in Messages |-> IdleHandler]
    /\ sent = 0
    /\ active_views = <<>>
    /\ cache = SpawnCache /\ blacklist_guild = {}
    /\ att = <<>> /\ instances = <<>> /\ players = {}
    /\ specials = <<>> /\ trig = <<>>
    /\ sc = <<>> /\ vm = <<>> /\ adm = <<>>
    /\ bot = <<>> /\ ic = <<>> /\ ccv = <<>> /\ btn = <<>> /\ rdy = <<>>
    /\ arg = None /\ ret = None

NextSpawn ==
    \/ \E h \in Messages :
           OnMessage(h, Guild1, FALSE, FALSE) /\ UNCHANGED <<att, instances, players, specials, trig, funVars, opVars>>
    \/ \E h \in Messages, permitted \in BOOLEAN,
          r \in {d \in Draws : d = 0 \/ d < TotalWeight(EnabledBalls(balls))} :
           \E thr0 \in InitialThresholds(hnd[h].guild) :
               \E thr \in DrawnThresholds(TriggerOf(hnd[h].guild, thr0)) :
                   /\ HandleMessage(h, TriggerFires(TriggerOf(hnd[h].guild, thr0)), TRUE,
                                    permitted, r)
                   /\ SpawnManagerHandleMessage(hnd[h].guild,
                          TriggerFires(TriggerOf(hnd[h].guild, thr0)), thr0, thr)
                   /\ UNCHANGED <<att, instances, players, specials, funVars, opVars>>
    \/ \E h \in Messages : SpawnSent(h) /\ UNCHANGED <<att, instances, players, specials, trig, funVars, opVars>>
    \/ \E h \in Messages : SpawnSendFailed(h) /\ UNCHANGED <<att, instances, players, specials, trig, funVars, opVars>>
    \/ LoadCacheClear /\ UNCHANGED <<att, instances, players, specials, trig, funVars, opVars>>
    \/ LoadCacheFill /\ UNCHANGED <<att, instances, players, specials, trig, funVars, opVars>>
    \/ LoadCacheRest /\ UNCHANGED <<att, instances, players, specials, trig, funVars, opVars>>
    \/ LoadCacheGuilds({}) /\ UNCHANGED <<att, instances, players, specials, trig, funVars, opVars>>
    \/ \E t \in BallTables : EditBallTable(t) /\ UNCHANGED <<att, instances, players, specials, trig, funVars, opVars>>

SpecSpawn == InitSpawn /\ [][NextSpawn]_vars

(***************************************************************************)
(* on_message over every kind of message, with the spawn trigger of each    *)
(* guild: a second guild with spawning enabled, a blacklisted guild and a   *)
(* guild without spawn channel.                                             *)
(***************************************************************************)
Guild2 == "guild2"
Guild3 == "guild3"
Guild4 == "guild4"
\* Guild1, Guild2 and Guild3 have a spawn channel; Guild3 is blacklisted
TriggerCache == [g \in {Guild1, Guild2, Guild3} |-> "channel"]
TriggerBlacklist == {Guild3}
\* message.guild of the messages on_message receives (None: a private message)
MessageGuilds == {Guild1, Guild2, Guild3, Guild4, None}
TriggerMessages == 1..(MaxMessages + 1)

InitTrigger ==
    /\ ballTable = <<BrazilBall>> /\ balls = ballTable
    /\ lc = IdleLoad
    /\ hnd = [h \in TriggerMessages |-> IdleHandler]
    /\ sent = 0
    /\ active_views = <<>>
    /\ cache = TriggerCache /\ blacklist_guild = TriggerBlacklist
    /\ specials = <<>> /\ trig = <<>>
    /\ sc = <<>> /\ vm = <<>> /\ adm = <<>>
    /\ bot = <<>> /\ ic = <<>> /\ ccv = <<>> /\ btn = <<>> /\ rdy = <<>>
    /\ att = <<>> /\ instances = <<>> /\ players = {}
    /\ arg = None /\ ret = None

NextTrigger ==
    \/ \E h \in TriggerMessages, g \in MessageGuilds, is_bot \in BOOLEAN, webhook \in BOOLEAN :
           OnMessage(h, g, is_bot, webhook)
           /\ UNCHANGED <<att, instances, players, specials, trig, funVars, opVars>>
    \/ \E h \in TriggerMessages, channel_found \in BOOLEAN, permitted \in BOOLEAN, r \in Draws :
           \E thr0 \in InitialThresholds(hnd[h].guild) :
               \E thr \in DrawnThresholds(TriggerOf(hnd[h].guild, thr0)) :
                   /\ HandleMessage(h, TriggerFires(TriggerOf(hnd[h].guild, thr0)),
                                    channel_found, permitted, r)
                   /\ SpawnManagerHandleMessage(hnd[h].guild,
                          TriggerFires(TriggerOf(hnd[h].guild, thr0)), thr0, thr)
                   /\ UNCHANGED <<att, instances, players, specials, funVars, opVars>>
    \/ \E h \in TriggerMessages :
           SpawnSent(h) /\ UNCHANGED <<att, instances, players, specials, trig, funVars, opVars>>
    \/ \E h \in TriggerMessages :
           SpawnSendFailed(h) /\ UNCHANGED <<att, instances, players, specials, trig, funVars, opVars>>

SpecTrigger == InitTrigger /\ [][NextTrigger]_vars

(***************************************************************************)
(* BallsDexBot.load_cache (bot.py:187-224) run again by the reload_cache     *)
(* handler (admin/cog.py:352) beside on_message: Guild3 is in the            *)
(* BlacklistedGuild table during the whole run.                              *)
(***************************************************************************)
InitReload ==
    /\ ballTable = <<BrazilBall>> /\ balls = ballTable
    /\ lc = IdleLoad
    /\ hnd = [h \in Messages |-> IdleHandler]
    /\ sent = 0
    /\ active_views = <<>>
    /\ cache = TriggerCache /\ blacklist_guild = TriggerBlacklist
    /\ specials = <<>> /\ trig = <<>>
    /\ sc = <<>> /\ vm = <<>> /\ adm = <<>>
    /\ bot = <<>> /\ ic = <<>> /\ ccv = <<>> /\ btn = <<>> /\ rdy = <<>>
    /\ att = <<>> /\ instances = <<>> /\ players = {}
    /\ arg = None /\ ret = None

NextReload ==
    \/ \E h \in Messages, g \in {Guild1, Guild3} :
           OnMessage(h, g, FALSE, FALSE)
           /\ UNCHANGED <<att, instances, players, specials, trig, funVars, opVars>>
    \/ \E h \in Messages :
           \E thr0 \in InitialThresholds(hnd[h].guild) :
               \E thr \in DrawnThresholds(TriggerOf(hnd[h].guild, thr0)) :
                   /\ HandleMessage(h, TriggerFires(TriggerOf(hnd[h].guild, thr0)),
                                    TRUE, TRUE, 0)
                   /\ SpawnManagerHandleMessage(hnd[h].guild,
                          TriggerFires(TriggerOf(hnd[h].guild, thr0)), thr0, thr)
                   /\ UNCHANGED <<att, instances, players, specials, funVars, opVars>>
    \/ \E h \in Messages :
           SpawnSent(h) /\ UNCHANGED <<att, instances, players, specials, trig, funVars, opVars>>
    \/ LoadCacheClear /\ UNCHANGED <<att, instances, players, specials, trig, funVars, opVars>>
    \/ LoadCacheFill /\ UNCHANGED <<att, instances, players, specials, trig, funVars, opVars>>
    \/ LoadCacheRest /\ UNCHANGED <<att, instances, players, specials, trig, funVars, opVars>>
    \/ LoadCacheGuilds(TriggerBlacklist)
           /\ UNCHANGED <<att, instances, players, specials, trig, funVars, opVars>>

SpecReload == InitReload /\ [][NextReload]_vars

(***************************************************************************)
(* The whole life of a session: on_message spawns a second announcement     *)
(* (cog.py:84-114, countryball.py:50-111) beside the voice catch attempts   *)
(* on the first one (cog.py:208-337).                                       *)
(***************************************************************************)
InitSession ==
    /\ active_views = [k \in {1} |-> NewCountryBall(BrazilBall, k)]
    /\ att = [a \in Attempts |-> IdleAttempt]
    /\ vm = [v \in {1, 2} |-> IdleVoice]
    /\ hnd = [h \in {1} |-> IdleHandler]
    /\ instances = <<>>
    /\ players = {}
    /\ balls = <<BrazilBall>> /\ ballTable = <<BrazilBall>>
    /\ lc = IdleLoad /\ sent = 1
    /\ cache = SpawnCache /\ blacklist_guild = {}
    /\ specials = <<>> /\ trig = <<>>
    /\ sc = <<>> /\ adm = <<>>
    /\ bot = <<>> /\ ic = <<>> /\ ccv = <<>> /\ btn = <<>> /\ rdy = <<>>
    /\ arg = None /\ ret = None

NextSession ==
    \/ NextVoice
    \/ \E h \in DOMAIN hnd :
           OnMessage(h, Guild1, FALSE, FALSE)
           /\ UNCHANGED <<att, instances, players, specials, trig, funVars, opVars>>
    \/ \E h \in DOMAIN hnd :
           \E thr0 \in InitialThresholds(hnd[h].guild) :
               \E thr \in DrawnThresholds(TriggerOf(hnd[h].guild, thr0)) :
                   /\ HandleMessage(h, TriggerFires(TriggerOf(hnd[h].guild, thr0)),
                                    TRUE, TRUE, 0)
                   /\ SpawnManagerHandleMessage(hnd[h].guild,
                          TriggerFires(TriggerOf(hnd[h].guild, thr0)), thr0, thr)
                   /\ UNCHANGED <<att, instances, players, specials, funVars, opVars>>
    \/ \E h \in DOMAIN hnd :
           SpawnSent(h) /\ UNCHANGED <<att, instances, players, specials, trig, funVars, opVars>>

SpecSession == InitSession /\ [][NextSession]_vars

(***************************************************************************)
(* on_ballsdex_settings_change, cog.py:116-139, and the /admin cooldown     *)
(* command, admin/cog.py:147-191, running beside on_message.                *)
(***************************************************************************)
\* enabled: the event's `enabled` argument (Null when not given)
IdleChange == [pc |-> "idle", guild |-> None, enabled |-> Null, outcome |-> None]

\* cog.py:117-139  on_ballsdex_settings_change(guild, channel, enabled) up to its return,
\* or to the await of GuildConfig.get (cog.py:130); channel and enabled are Null when
\* the event does not give them
SettingsChange(s, g, channel, enabled) ==
    LET ends(outcome) ==
            sc' = [sc EXCEPT ![s] = [pc |-> "done", guild |-> g, enabled |-> enabled,
                                     outcome |-> outcome]]
        stores == cache' = [k \in DOMAIN cache \cup {g} |->
                               IF k = g THEN channel[1] ELSE cache[k]]
    IN  /\ sc[s].pc = "idle"
        /\ IF g \notin DOMAIN cache
           THEN IF enabled = Some(FALSE) THEN ends("nothing") /\ UNCHANGED cache
                ELSE IF channel # Null THEN ends("added") /\ stores
                ELSE /\ sc' = [sc EXCEPT ![s] = [pc |-> "get", guild |-> g,
                                                 enabled |-> enabled, outcome |-> None]]
                     /\ UNCHANGED cache
           ELSE IF enabled = Some(FALSE)
                THEN ends("removed") /\ cache' = [k \in DOMAIN cache \ {g} |-> cache[k]]
                ELSE IF channel # Null THEN ends("set") /\ stores
                ELSE ends("nothing") /\ UNCHANGED cache
        /\ UNCHANGED <<balls, ballTable, lc, hnd, sent, blacklist_guild, active_views>>

\* cog.py:130-134  GuildConfig.get answers: DoesNotExist (config = Null), or the row,
\* whose spawn_channel (None in a row without spawn channel) is stored
SettingsConfigLoaded(s, config) ==
    /\ sc[s].pc = "get"
    /\ IF config = Null
       THEN /\ sc' = [sc EXCEPT ![s].pc = "done", ![s].outcome = "nothing"]
            /\ UNCHANGED cache
       ELSE /\ sc' = [sc EXCEPT ![s].pc = "done", ![s].outcome = "added"]
            /\ cache' = [k \in DOMAIN cache \cup {sc[s].guild} |->
                            IF k = sc[s].guild THEN config[1] ELSE cache[k]]
    /\ UNCHANGED <<balls, ballTable, lc, hnd, sent, blacklist_guild, active_views>>

\* snapshot: what admin_explain shows, the trigger state of the guild (Null: none)
IdleAdmin == [pc |-> "idle", guild |-> None, outcome |-> None, snapshot |-> Null]

\* admin/cog.py:162-186  /admin cooldown up to its first await: guild_id is not a number
\* (~valid: ValueError), the guild is asked from the IPC cog (ipc), or it is
\* bot.get_guild(...) / interaction.guild, g (None when there is none)
AdminCooldown(c, g, valid, ipc) ==
    /\ adm[c].pc = "idle"
    /\ adm' = [adm EXCEPT ![c] =
                  IF ~valid THEN [IdleAdmin EXCEPT !.pc = "done", !.outcome = "invalid_id"]
                  ELSE IF ipc THEN [IdleAdmin EXCEPT !.pc = "get_guild", !.guild = g]
                  ELSE IF g = None
                  THEN [IdleAdmin EXCEPT !.pc = "done", !.outcome = "not_found"]
                  ELSE [IdleAdmin EXCEPT !.pc = "explain", !.guild = g]]

\* admin/cog.py:165-172, 182-191  the IPC handler answers: the guild, or nothing
AdminGuildResolved(c, found) ==
    /\ adm[c].pc = "get_guild"
    /\ adm' = [adm EXCEPT ![c] =
                  IF found /\ adm[c].guild # None
                  THEN [adm[c] EXCEPT !.pc = "explain"]
                  ELSE [IdleAdmin EXCEPT !.pc = "done", !.outcome = "not_found"]]

\* mutant of AdminExplain: the inspection is counted as a message of the guild
AdminExplainCounts(c) ==
    /\ adm[c].pc = "explain"
    /\ adm' = [adm EXCEPT ![c].pc = "done", ![c].outcome = "explained"]
    /\ trig' = [k \in DOMAIN trig \cup {adm[c].guild} |->
                   IF k # adm[c].guild THEN trig[k]
                   ELSE TriggerCounted(TriggerOf(k, 1))]

\* spawn_manager.admin_explain(interaction, guild), awaited at admin/cog.py:191: replies
\* with the guild's accumulator, threshold and last spawn time and changes nothing
AdminExplain(c) ==
    /\ adm[c].pc = "explain"
    /\ adm' = [adm EXCEPT ![c].pc = "done", ![c].outcome = "explained",
                          ![c].snapshot = IF adm[c].guild \in DOMAIN trig
                                          THEN Some(trig[adm[c].guild]) ELSE Null]
    /\ UNCHANGED trig

\* the scenario: two messages of Guild1, three settings changes of Guild1 (numbered in
\* the order they begin) and one /admin cooldown
InitSettings ==
    /\ ballTable = <<BrazilBall>> /\ balls = ballTable
    /\ lc = IdleLoad
    /\ hnd = [h \in {1, 2} |-> IdleHandler]
    /\ sent = 0
    /\ active_views = <<>>
    /\ cache = SpawnCache /\ blacklist_guild = {}
    /\ specials = <<>> /\ trig = <<>>
    /\ sc = [s \in {1, 2, 3} |-> IdleChange]
    /\ adm = [c \in {1} |-> IdleAdmin]
    /\ bot = <<>> /\ ic = <<>> /\ ccv = <<>> /\ btn = <<>> /\ rdy = <<>>
    /\ vm = <<>>
    /\ att = <<>> /\ instances = <<>> /\ players = {}
    /\ arg = None /\ ret = None

NextSettings ==
    \/ \E h \in DOMAIN hnd :
           OnMessage(h, Guild1, FALSE, FALSE)
           /\ UNCHANGED <<att, instances, players, specials, trig, funVars, opVars>>
    \/ \E h \in DOMAIN hnd :
       \* guild.get_channel(None) finds no channel
       \E channel_found \in {b \in BOOLEAN : b => /\ hnd[h].guild \in DOMAIN cache
                                                  /\ cache[hnd[h].guild] # None} :
           \E thr0 \in InitialThresholds(hnd[h].guild) :
               \E thr \in DrawnThresholds(TriggerOf(hnd[h].guild, thr0)) :
                   /\ HandleMessage(h, TriggerFires(TriggerOf(hnd[h].guild, thr0)),
                                    channel_found, TRUE, 0)
                   /\ SpawnManagerHandleMessage(hnd[h].guild,
                          TriggerFires(TriggerOf(hnd[h].guild, thr0)), thr0, thr)
                   /\ UNCHANGED <<att, instances, players, specials, funVars, opVars>>
    \/ \E h \in DOMAIN hnd :
           SpawnSent(h) /\ UNCHANGED <<att, instances, players, specials, trig, funVars, opVars>>
    \/ \E s \in DOMAIN sc, channel \in {Null, Some("channel2")},
          enabled \in {Null, Some(TRUE), Some(FALSE)} :
           /\ \A p \in DOMAIN sc : p < s => sc[p].pc # "idle"
           /\ SettingsChange(s, Guild1, channel, enabled)
           /\ UNCHANGED <<att, instances, players, specials, trig, funVars, vm, adm, uiVars>>
    \/ \E s \in DOMAIN sc, config \in {Null, Some("channel1"), Some(None)} :
           SettingsConfigLoaded(s, config)
           /\ UNCHANGED <<att, instances, players, specials, trig, funVars, vm, adm, uiVars>>
    \/ \E c \in DOMAIN adm, g \in {Guild1, Guild4, None}, valid \in BOOLEAN, ipc \in BOOLEAN :
           AdminCooldown(c, g, valid, ipc)
           /\ UNCHANGED <<catchVars, spawnVars, specials, trig, funVars, sc, vm, uiVars>>
    \/ \E c \in DOMAIN adm, found \in BOOLEAN :
           AdminGuildResolved(c, found)
           /\ UNCHANGED <<catchVars, spawnVars, specials, trig, funVars, sc, vm, uiVars>>
    \/ \E c \in DOMAIN adm :
           AdminExplain(c) /\ UNCHANGED <<catchVars, spawnVars, specials, funVars, sc, vm, uiVars>>

SpecSettings == InitSettings /\ [][NextSettings]_vars

(***************************************************************************)
(* CommandTree.interaction_check and BallsDexBot.blacklist_check,           *)
(* bot.py:95-116 and 332-358.  result is the returned bool as text; notice  *)
(* names the message the check sends before it returns False.               *)
(***************************************************************************)
IdleCheck == [pc |-> "idle", result |-> None, notice |-> None]

\* the interactions: late when datetime.now() - created_at is at least 2.8 s; type
\* autocomplete or not; the user id; guild_id, None outside a guild
Interactions ==
    [late : BOOLEAN, autocomplete : BOOLEAN, user : {1, 2}, guild_id : {None, Guild1, Guild3}]

\* where a check that refuses goes: the notice is awaited, except for an autocomplete
\* interaction, which gets none (bot.py:107, 334, 344)
Refuse(x, notice) == IF x.autocomplete THEN "False" ELSE notice

\* mutant of BlacklistCheck: the blacklist of guilds is not consulted
BlacklistCheckNoGuild(x) ==
    IF x.user \in bot.blacklist THEN Refuse(x, "r_blacklisted") ELSE "True"

\* bot.py:332-358  blacklist_check: the value it returns, or the notice it awaits first
BlacklistCheck(x) ==
    IF x.user \in bot.blacklist THEN Refuse(x, "r_blacklisted")
    ELSE IF x.guild_id # None /\ x.guild_id \in blacklist_guild THEN Refuse(x, "r_guild")
    ELSE "True"

\* bot.py:96-116  interaction_check up to its return or to the notice it awaits
InteractionCheck(i, x) ==
    LET to == IF x.late THEN "False"
              ELSE IF ~bot.ready THEN Refuse(x, "r_starting")
              ELSE BlacklistCheck(x)
    IN  /\ ic[i].pc = "idle"
        /\ ic' = [ic EXCEPT ![i] = IF to \in {"True", "False"}
                                   THEN [IdleCheck EXCEPT !.pc = "done", !.result = to]
                                   ELSE [IdleCheck EXCEPT !.pc = to, !.notice = to]]
        /\ UNCHANGED <<bot, blacklist_guild>>

\* bot.py:108-113, 335-341, 345-351  interaction.response.send_message is awaited: it
\* returns and the check returns False, or it raises and the exception leaves
\* interaction_check, which returns nothing
CheckNoticeSent(i, delivered) ==
    /\ ic[i].pc \in {"r_starting", "r_blacklisted", "r_guild"}
    /\ ic' = [ic EXCEPT ![i].pc = "done",
                        ![i].result = IF delivered THEN "False" ELSE "raised"]
    /\ UNCHANGED <<bot, blacklist_guild>>

\* the bot while its shards connect or once ready, with the user 2 and the guild
\* Guild3 blacklisted or not
InitInteraction ==
    /\ bot \in [ready : BOOLEAN, blacklist : {{}, {2}}, cogs : {{"Core"}}]
    /\ blacklist_guild \in {{}, TriggerBlacklist}
    /\ ic = [i \in {1, 2} |-> IdleCheck]
    /\ ballTable = <<BrazilBall>> /\ balls = ballTable
    /\ lc = IdleLoad /\ hnd = <<>> /\ sent = 0
    /\ active_views = <<>> /\ cache = TriggerCache
    /\ specials = <<>> /\ trig = <<>>
    /\ sc = <<>> /\ vm = <<>> /\ adm = <<>>
    /\ ccv = <<>> /\ btn = <<>> /\ rdy = <<>>
    /\ att = <<>> /\ instances = <<>> /\ players = {}
    /\ arg = None /\ ret = None

NextInteraction ==
    \/ \E i \in DOMAIN ic, x \in Interactions :
           InteractionCheck(i, x)
           /\ UNCHANGED <<catchVars, balls, ballTable, lc, hnd, sent, cache, specials, trig,
                          funVars, sc, vm, adm, ccv, btn, rdy>>
    \/ \E i \in DOMAIN ic, delivered \in BOOLEAN :
           CheckNoticeSent(i, delivered)
           /\ UNCHANGED <<catchVars, balls, ballTable, lc, hnd, sent, cache, specials, trig,
                          funVars, sc, vm, adm, ccv, btn, rdy>>

SpecInteraction == InitInteraction /\ [][NextInteraction]_vars

(***************************************************************************)
(* ConfirmChoiceView, core/utils/buttons.py:7-66.  The library runs, for    *)
(* each button interaction of a view that is not stopped, a task that       *)
(* awaits interaction_check and then the callback of the button.            *)
(***************************************************************************)
\* buttons.py:13-16  __init__: value None; user 1 is the one the view is made for
\* (self.user).  value holds True and False as text.
NewConfirmView == [value |-> None, disabled |-> FALSE, stopped |-> FALSE]
IdleButton == [pc |-> "idle", user |-> 0, button |-> None, outcome |-> None]

\* an interaction of `user` on `button` reaches the view: its task is created
ButtonDispatched(b, user, button) ==
    /\ btn[b].pc = "idle"
    /\ ~ccv.stopped
    /\ btn' = [btn EXCEPT ![b] = [IdleButton EXCEPT !.pc = "scheduled", !.user = user,
                                                    !.button = button]]
    /\ UNCHANGED ccv

\* buttons.py:19-33, 46-51, 59-64  the task runs: interaction_check refuses another
\* user, then a view whose value is set, each with a notice it awaits; else the
\* callback disables the buttons and awaits interaction.response.edit_message
ButtonChecked(b) ==
    /\ btn[b].pc = "scheduled"
    /\ IF btn[b].user # 1
       THEN btn' = [btn EXCEPT ![b].pc = "r_not_yours"] /\ UNCHANGED ccv
       ELSE IF ccv.value # None
       THEN btn' = [btn EXCEPT ![b].pc = "r_chosen"] /\ UNCHANGED ccv
       ELSE /\ btn' = [btn EXCEPT ![b].pc = "edit"]
            /\ ccv' = [ccv EXCEPT !.disabled = TRUE]

\* buttons.py:23-26, 29-32  the notice is sent: interaction_check returns False and the
\* callback does not run
ButtonNoticeSent(b) ==
    /\ btn[b].pc \in {"r_not_yours", "r_chosen"}
    /\ btn' = [btn EXCEPT ![b].pc = "done", ![b].outcome = "refused"]
    /\ UNCHANGED ccv

\* buttons.py:49-53, 62-66  edit_message returned: self.value = True (confirm) or False
\* (cancel), then self.stop()
ButtonEdited(b) ==
    /\ btn[b].pc = "edit"
    /\ btn' = [btn EXCEPT ![b].pc = "done", ![b].outcome = "chosen"]
    /\ ccv' = [ccv EXCEPT !.value = IF btn[b].button = "confirm" THEN "True" ELSE "False",
                          !.stopped = TRUE]

\* the awaited send_message or edit_message raises: the exception leaves the task
ButtonRaises(b) ==
    /\ btn[b].pc \in {"r_not_yours", "r_chosen", "edit"}
    /\ btn' = [btn EXCEPT ![b].pc = "done", ![b].outcome = "Error"]
    /\ UNCHANGED ccv

InitConfirm ==
    /\ ccv = NewConfirmView
    /\ btn = [b \in {1, 2, 3} |-> IdleButton]
    /\ bot = <<>> /\ ic = <<>> /\ rdy = <<>>
    /\ ballTable = <<BrazilBall>> /\ balls = ballTable
    /\ lc = IdleLoad /\ hnd = <<>> /\ sent = 0
    /\ active_views = <<>> /\ cache = SpawnCache /\ blacklist_guild = {}
    /\ specials = <<>> /\ trig = <<>>
    /\ sc = <<>> /\ vm = <<>> /\ adm = <<>>
    /\ att = <<>> /\ instances = <<>> /\ players = {}
    /\ arg = None /\ ret = None

NextConfirm ==
    \/ \E b \in DOMAIN btn, user \in {1, 2}, button \in {"confirm", "cancel"} :
           ButtonDispatched(b, user, button)
           /\ UNCHANGED <<catchVars, spawnVars, specials, trig, funVars, sc, vm, adm, bot, ic, rdy>>
    \/ \E b \in DOMAIN btn :
           ButtonChecked(b)
           /\ UNCHANGED <<catchVars, spawnVars, specials, trig, funVars, sc, vm, adm, bot, ic, rdy>>
    \/ \E b \in DOMAIN btn :
           ButtonNoticeSent(b)
           /\ UNCHANGED <<catchVars, spawnVars, specials, trig, funVars, sc, vm, adm, bot, ic, rdy>>
    \/ \E b \in DOMAIN btn :
           ButtonEdited(b)
           /\ UNCHANGED <<catchVars, spawnVars, specials, trig, funVars, sc, vm, adm, bot, ic, rdy>>
    \/ \E b \in DOMAIN btn :
           ButtonRaises(b)
           /\ UNCHANGED <<catchVars, spawnVars, specials, trig, funVars, sc, vm, adm, bot, ic, rdy>>

SpecConfirm == InitConfirm /\ [][NextConfirm]_vars

(***************************************************************************)
(* BallsDexBot.on_ready, bot.py:256-330: the gateway dispatches it after    *)
(* the first connection and again after a reconnection that could not       *)
(* resume.  bot.cogs holds the names of the cogs added so far.              *)
(***************************************************************************)
IdleReady == [pc |-> "idle", outcome |-> None]

\* bot.py:257-281  on_ready up to its first await: it returns when a cog is loaded;
\* else the owners are set, fetch_user is awaited when there is one owner (bot.py:278)
\* and load_cache is entered, which clears the catalog and awaits Ball.all()
\* (bot.py:192-193)
OnReady(r, one_owner) ==
    /\ rdy[r].pc = "idle"
    /\ IF bot.cogs # {}
       THEN rdy' = [rdy EXCEPT ![r] = [pc |-> "done", outcome |-> "skipped"]] /\ UNCHANGED balls
       ELSE IF one_owner
       THEN rdy' = [rdy EXCEPT ![r].pc = "fetch_user"] /\ UNCHANGED balls
       ELSE rdy' = [rdy EXCEPT ![r].pc = "load_cache"] /\ balls' = <<>>
    /\ UNCHANGED <<bot, ballTable, blacklist_guild>>

\* bot.py:278-281  fetch_user answered: load_cache is entered
OnReadyOwnerFetched(r) ==
    /\ rdy[r].pc = "fetch_user"
    /\ rdy' = [rdy EXCEPT ![r].pc = "load_cache"]
    /\ balls' = <<>>
    /\ UNCHANGED <<bot, ballTable, blacklist_guild>>

\* bot.py:193-224, 281-289  the queries of load_cache answered (users: the
\* BlacklistedID rows, guilds: the BlacklistedGuild rows), then add_cog(Core(self)):
\* the library raises ClientException when a cog of that name is loaded, else the cog
\* is added and the first load_extension is awaited
OnReadyCacheLoaded(r, users, guilds) ==
    /\ rdy[r].pc = "load_cache"
    /\ balls' = StoreAll(balls, ballTable)
    /\ blacklist_guild' = guilds
    /\ IF "Core" \in bot.cogs
       THEN /\ rdy' = [rdy EXCEPT ![r] = [pc |-> "done", outcome |-> "ClientException"]]
            /\ bot' = [bot EXCEPT !.blacklist = users]
       ELSE /\ rdy' = [rdy EXCEPT ![r].pc = "packages"]
            /\ bot' = [bot EXCEPT !.blacklist = users, !.cogs = bot.cogs \cup {"Core"}]
    /\ UNCHANGED ballTable

\* bot.py:291-303  the packages are loaded (a failure is logged, bot.py:295-296), each
\* adding its cog; tree.sync is awaited
OnReadyPackagesLoaded(r) ==
    /\ rdy[r].pc = "packages"
    /\ rdy' = [rdy EXCEPT ![r].pc = "sync"]
    /\ bot' = [bot EXCEPT !.cogs = bot.cogs \cup {"Admin", "CountryBallsSpawner", "Player"}]
    /\ UNCHANGED <<balls, ballTable, blacklist_guild>>

\* bot.py:303-330  the commands are synced and the bot is operational
OnReadySynced(r) ==
    /\ rdy[r].pc = "sync"
    /\ rdy' = [rdy EXCEPT ![r] = [pc |-> "done", outcome |-> "setup"]]
    /\ UNCHANGED <<bot, balls, ballTable, blacklist_guild>>

\* fetch_user, a query of load_cache or tree.sync raises: the exception leaves on_ready
OnReadyRaises(r) ==
    /\ rdy[r].pc \in {"fetch_user", "load_cache", "sync"}
    /\ rdy' = [rdy EXCEPT ![r] = [pc |-> "done", outcome |-> "Error"]]
    /\ UNCHANGED <<bot, balls, ballTable, blacklist_guild>>

\* the process has started (bot.py:149-150, no cog yet); the gateway is connected
InitReady ==
    /\ bot = [ready |-> TRUE, blacklist |-> {}, cogs |-> {}]
    /\ rdy = [r \in {1, 2, 3} |-> IdleReady]
    /\ ballTable = <<BrazilBall>> /\ balls = <<>>
    /\ blacklist_guild = {}
    /\ lc = IdleLoad /\ hnd = <<>> /\ sent = 0
    /\ active_views = <<>> /\ cache = <<>>
    /\ specials = <<>> /\ trig = <<>>
    /\ sc = <<>> /\ vm = <<>> /\ adm = <<>>
    /\ ic = <<>> /\ ccv = <<>> /\ btn = <<>>
    /\ att = <<>> /\ instances = <<>> /\ players = {}
    /\ arg = None /\ ret = None

NextReady ==
    \/ \E r \in DOMAIN rdy, one_owner \in BOOLEAN :
           OnReady(r, one_owner)
           /\ UNCHANGED <<catchVars, lc, hnd, sent, cache, specials, trig, funVars,
                          sc, vm, adm, ic, ccv, btn>>
    \/ \E r \in DOMAIN rdy :
           OnReadyOwnerFetched(r)
           /\ UNCHANGED <<catchVars, lc, hnd, sent, cache, specials, trig, funVars,
                          sc, vm, adm, ic, ccv, btn>>
    \/ \E r \in DOMAIN rdy :
           OnReadyCacheLoaded(r, {2}, TriggerBlacklist)
           /\ UNCHANGED <<catchVars, lc, hnd, sent, cache, specials, trig, funVars,
                          sc, vm, adm, ic, ccv, btn>>
    \/ \E r \in DOMAIN rdy :
           OnReadyPackagesLoaded(r)
           /\ UNCHANGED <<catchVars, lc, hnd, sent, cache, specials, trig, funVars,
                          sc, vm, adm, ic, ccv, btn>>
    \/ \E r \in DOMAIN rdy :
           OnReadySynced(r)
           /\ UNCHANGED <<catchVars, lc, hnd, sent, cache, specials, trig, funVars,
                          sc, vm, adm, ic, ccv, btn>>
    \/ \E r \in DOMAIN rdy :
           OnReadyRaises(r)
           /\ UNCHANGED <<catchVars, lc, hnd, sent, cache, specials, trig, funVars,
                          sc, vm, adm, ic, ccv, btn>>

SpecReady == InitReady /\ [][NextReady]_vars

(***************************************************************************)
(* Properties of the spawn trigger and of the message filter (SpecTrigger). *)
(***************************************************************************)
\* the step in which handle_message answers on_message h
Answers(h) == hnd[h].pc = "handle" /\ hnd'[h].pc # "handle"
\* ... and the trigger fired: on_message goes on past cog.py:99-100
Fires(h) == Answers(h) /\ hnd'[h].outcome # "no_spawn"
AccumulatorOf(t, g) == IF g \in DOMAIN t THEN t[g].accumulator ELSE 0

\* C18: for every guild, a step in which the trigger fires resets the accumulator to 0
\* (so two fires always have a reset between them) and fires only a trigger whose
\* accumulator has reached its threshold; in every other step the accumulator does not
\* decrease and no trigger state is dropped.
C18_Step ==
    /\ DOMAIN trig \subseteq DOMAIN trig'
    /\ \A g \in DOMAIN trig' :
           IF \E h \in DOMAIN hnd : Fires(h) /\ hnd[h].guild = g
           THEN /\ trig'[g].accumulator = 0
                /\ g \in DOMAIN trig => trig[g].accumulator + 1 >= trig[g].threshold
           ELSE trig'[g].accumulator >= AccumulatorOf(trig, g)
C18_ResetOnFire == [][C18_Step]_vars

\* C18 witness: the trigger of Guild1 fired for two messages and then counted a third
C18_Witness ==
    \E h1, h2, h3 \in DOMAIN hnd :
        /\ h1 # h2
        /\ hnd[h1].outcome = "spawned" /\ hnd[h2].outcome = "spawned"
        /\ hnd[h3].outcome = "no_spawn"
        /\ DOMAIN trig = {Guild1}
        /\ trig[Guild1].accumulator = 1

\* C19: under every interleaving of the on_message handlers, each qualifying message
\* of a guild that does not fire the trigger grows the guild's accumulator by exactly
\* 1, the triggers of the other guilds are untouched, and nothing else changes a
\* trigger: k messages without a fire grow the accumulator by exactly k.
C19_Step ==
    /\ \A h \in DOMAIN hnd :
           Answers(h) =>
               /\ hnd[h].guild \in DOMAIN trig'
               /\ ~Fires(h) => trig'[hnd[h].guild].accumulator
                                   = AccumulatorOf(trig, hnd[h].guild) + 1
               /\ \A g \in DOMAIN trig \ {hnd[h].guild} : trig'[g] = trig[g]
    /\ trig' # trig => \E h \in DOMAIN hnd : Answers(h)
C19_NoLostIncrement == [][C19_Step]_vars

\* C19 witness: two messages of Guild1 were counted while a third handler of Guild1 was
\* in flight
C19_Witness ==
    \E h1, h2, h3 \in DOMAIN hnd :
        /\ h1 # h2
        /\ hnd[h1].outcome = "no_spawn" /\ hnd[h2].outcome = "no_spawn"
        /\ hnd[h3].pc = "handle" /\ hnd[h3].guild = Guild1
        /\ DOMAIN trig = {Guild1}
        /\ trig[Guild1].accumulator = 2

\* a message that does not qualify: from a bot, from a webhook, outside a guild, of a
\* guild without cached spawn channel, or of a blacklisted guild
NotQualifying(g, is_bot, webhook) ==
    is_bot \/ webhook \/ g = None \/ g \notin DOMAIN cache \/ g \in blacklist_guild

\* C20: on_message drops a message that does not qualify before handle_message: it
\* returns at once and the trigger state, the guild cache and the session registry are
\* unchanged; only guilds with a spawn channel that are not blacklisted ever get a
\* handler into handle_message or a trigger state.
C20_Step ==
    \A h \in DOMAIN hnd, g \in MessageGuilds, is_bot \in BOOLEAN, webhook \in BOOLEAN :
        (NotQualifying(g, is_bot, webhook) /\ OnMessage(h, g, is_bot, webhook))
        => /\ hnd'[h].pc = "done" /\ hnd'[h].outcome = "dropped"
           /\ trig' = trig /\ cache' = cache /\ active_views' = active_views
C20_Reached ==
    /\ \A h \in DOMAIN hnd :
           hnd[h].pc = "handle" => hnd[h].guild \in DOMAIN TriggerCache \ TriggerBlacklist
    /\ DOMAIN trig \subseteq DOMAIN TriggerCache \ TriggerBlacklist
C20_OnlyQualifyingReachTrigger == []C20_Reached /\ [][C20_Step]_vars

\* C20 witness: one message was dropped, one of Guild2 is inside handle_message and one
\* of Guild1 was counted by its trigger
C20_Witness ==
    \E h1, h2, h3 \in DOMAIN hnd :
        /\ hnd[h1].outcome = "dropped"
        /\ hnd[h2].pc = "handle" /\ hnd[h2].guild = Guild2
        /\ hnd[h3].outcome = "no_spawn"
        /\ DOMAIN trig = {Guild1}
        /\ cache = TriggerCache /\ active_views = <<>>

(***************************************************************************)
(* Name matching as a function of the configured names and the candidate    *)
(* text (cog.py:218-231), applied to drawn inputs.                          *)
(***************************************************************************)
MatchCountries    == {S_Brazil, S_BRAZIL}
MatchCatchNames   == {<<>>, S_brasil, S_Brasil, S_di_ascii, S_di_rsquo, S_brazil_brasil}
MatchTranslations == {<<>>, S_Brasil, S_dI_ascii, S_q_ascii}
MatchTexts == {S_brazil, S_Brazil, S_BRAZIL, S_BRAZIL_sp, S_brasil, S_Brasil, S_Argentina,
               S_dI_ascii, S_di_rsquo, S_di_lsquo, S_q_ldquo, S_empty}

InitMatch ==
    /\ arg \in [country : MatchCountries, catch_names : MatchCatchNames,
                 translations : MatchTranslations, msg : MatchTexts]
    /\ ret = None
    /\ specials = <<>> /\ trig = <<>>
    /\ sc = <<>> /\ vm = <<>> /\ adm = <<>>
    /\ bot = <<>> /\ ic = <<>> /\ ccv = <<>> /\ btn = <<>> /\ rdy = <<>>
    /\ active_views = <<>> /\ att = <<>> /\ instances = <<>> /\ players = {}
    /\ balls = <<>> /\ ballTable = <<>> /\ lc = IdleLoad /\ hnd = <<>> /\ sent = 0
    /\ cache = SpawnCache /\ blacklist_guild = {}

\* cog.py:218-259  the branch try_catch_ball takes on an uncaught ball
ApplyMatch ==
    /\ ret = None
    /\ ret' = IF NameMatches(arg.msg, arg) THEN "catch_ball" ELSE "WrongName"
    /\ UNCHANGED <<arg, catchVars, spawnVars, specials, trig, opVars>>

NextMatch == ApplyMatch

SpecMatch == InitMatch /\ [][NextMatch]_vars

(***************************************************************************)
(* get_random as a function of the catalog and of the draw                  *)
(* (countryball.py:41-48), applied to drawn inputs.                         *)
(***************************************************************************)
DrawBalls == {BrazilBall, GermanyBall, RetiredBall, ZeroBall}
\* the catalogs of one to three distinct rows on which get_random returns
DrawCatalogs ==
    {c \in {<<a>> : a \in DrawBalls}
            \cup {<<a, b>> : a \in DrawBalls, b \in DrawBalls}
            \cup {<<a, b, d>> : a \in DrawBalls, b \in DrawBalls, d \in DrawBalls} :
        /\ \A i, j \in DOMAIN c : i # j => c[i] # c[j]
        /\ GetRandomRaises(c) = None}

InitDraw ==
    /\ \E c \in DrawCatalogs : \E r \in 0..(TotalWeight(EnabledBalls(c)) - 1) :
           arg = [cat |-> c, r |-> r]
    /\ ret = Null
    /\ specials = <<>> /\ trig = <<>>
    /\ sc = <<>> /\ vm = <<>> /\ adm = <<>>
    /\ bot = <<>> /\ ic = <<>> /\ ccv = <<>> /\ btn = <<>> /\ rdy = <<>>
    /\ active_views = <<>> /\ att = <<>> /\ instances = <<>> /\ players = {}
    /\ balls = <<>> /\ ballTable = <<>> /\ lc = IdleLoad /\ hnd = <<>> /\ sent = 0
    /\ cache = SpawnCache /\ blacklist_guild = {}

\* countryball.py:41-48  cb, the Ball get_random wraps, on the catalog arg.cat
ApplyDraw ==
    /\ ret = Null
    /\ ret' = Some(GetRandom(arg.cat, arg.r))
    /\ UNCHANGED <<arg, catchVars, spawnVars, specials, trig, opVars>>

NextDraw == ApplyDraw

SpecDraw == InitDraw /\ [][NextDraw]_vars

\* the number of draws 0 <= r < total for which get_random returns the definition b
DrawsOf(cat, b) ==
    Cardinality({r \in 0..(TotalWeight(EnabledBalls(cat)) - 1) : GetRandom(cat, r) = b})

\* C14: get_random returns an enabled definition, each with a share of the equally
\* likely draws equal to its rarity: two enabled definitions are drawn in the ratio of
\* their rarities (0.5 against 0.1 gives 5:1), and an enabled definition of rarity 0 is
\* never drawn while another enabled definition has positive rarity.
C14_WeightIsRarity ==
    ret # Null =>
        LET pop == EnabledBalls(arg.cat)
        IN  /\ ret[1] \in Range(pop)
            /\ ret[1].rarity > 0
            /\ \A i \in DOMAIN pop : DrawsOf(arg.cat, pop[i]) = pop[i].rarity
            /\ \A i, j \in DOMAIN pop :
                   DrawsOf(arg.cat, pop[i]) * pop[j].rarity
                       = DrawsOf(arg.cat, pop[j]) * pop[i].rarity
            /\ ({BrazilBall, GermanyBall} \subseteq Range(pop))
               => DrawsOf(arg.cat, BrazilBall) = 5 * DrawsOf(arg.cat, GermanyBall)

\* C14 witness: the rarer definition was drawn from a catalog that also holds an
\* enabled definition of rarity 0
C14_Witness ==
    /\ ret = Some(GermanyBall)
    /\ arg.cat = <<ZeroBall, BrazilBall, GermanyBall>>

\* the names C5 compares with: the case-normalized primary name, alternate catch names
\* and translations
C5_NormalizedNames(model) ==
    {Lower(model.country)}
    \cup (IF model.catch_names # <<>>
          THEN {Lower(x) : x \in Range(Split(model.catch_names, ";"))} ELSE {})
    \cup (IF model.translations # <<>>
          THEN {Lower(x) : x \in Range(Split(model.translations, ";"))} ELSE {})

\* C5 as claimed: a candidate text matches iff its lower-cased, trimmed, quote-normalized
\* form equals the case-normalized primary name, alternate catch name or translation;
\* the letter case of the configured names does not matter.
C5_MatchIffNormalizedEqual ==
    ret # None =>
        ((ret = "catch_ball") <=> (CName(arg.msg) \in C5_NormalizedNames(arg)))

(***************************************************************************)
(* Properties of spawning and of the catalog reload (SpecSpawn).            *)
(***************************************************************************)
\* the step in which on_message h, its trigger fired and its channel found, runs
\* get_random on the catalog of the state the step starts in
RunsGetRandom(h) ==
    /\ hnd[h].pc = "handle"
    /\ hnd'[h].pc = "send" \/ hnd'[h].outcome \notin {None, "no_spawn", "KeyError", "lost_channel"}
\* the step in which spawn of on_message h returns False
SpawnReturnsFalse(h) ==
    hnd[h].pc \in {"handle", "send"} /\ hnd'[h].outcome = "spawn_false"

\* C6: a spawn that cannot post its announcement (no permission, Forbidden or
\* HTTPException on send) returns False and leaves active_views unchanged; an entry is
\* added only by the step in which channel.send has returned the announcement message,
\* under the id of that message, and no other entry changes; every key of active_views
\* is the id of a sent announcement.
C6_Keys == DOMAIN active_views \subseteq 1..sent
C6_Step ==
    /\ \A h \in DOMAIN hnd : SpawnReturnsFalse(h) => active_views' = active_views
    /\ active_views' # active_views =>
           \E h \in DOMAIN hnd :
               /\ hnd[h].pc = "send" /\ hnd'[h].outcome = "spawned"
               /\ sent' = sent + 1
               /\ sent' \notin DOMAIN active_views
               /\ DOMAIN active_views' = DOMAIN active_views \cup {sent'}
               /\ active_views'[sent'].model = hnd[h].ball
               /\ ~active_views'[sent'].caught
               /\ \A k \in DOMAIN active_views : active_views'[k] = active_views[k]
C6_SessionOnlyAfterSend == []C6_Keys /\ [][C6_Step]_vars

\* C6 witness: one spawn returned False, another one posted and registered its session
C6_Witness ==
    \E h1, h2 \in DOMAIN hnd :
        /\ hnd[h1].outcome = "spawn_false"
        /\ hnd[h2].outcome = "spawned"
        /\ DOMAIN active_views = {1} /\ sent = 1

HasEnabled(cat) == EnabledBalls(cat) # <<>>
HasSpawnable(cat) == \E i \in DOMAIN cat : cat[i].enabled /\ cat[i].rarity > 0

\* C7 as claimed: a reader that runs get_random while load_cache is suspended on
\* Ball.all() against a non-empty Ball table reads the complete old mapping or the
\* complete new one, never an empty or partly filled one (stated for a reload whose old
\* and new mapping both hold a definition that can spawn).
C7_Step ==
    \A h \in DOMAIN hnd :
        ( /\ RunsGetRandom(h)
          /\ lc.pc = "balls"
          /\ HasSpawnable(lc.old) /\ HasSpawnable(ballTable) )
        => /\ balls \in {lc.old, StoreAll(<<>>, ballTable)}
           /\ hnd'[h].outcome # "NoBall"
C7_ReaderSeesWholeCatalog == [][C7_Step]_vars

GetRandomReturned(h) ==
    /\ hnd'[h].outcome \notin {"NoBall", "ValueError"}
    /\ hnd'[h].pc = "send" => hnd'[h].ball.enabled

\* C8 as claimed: on every catalog with at least one enabled definition get_random
\* returns, and returns an enabled definition.
C8_OriginalStep ==
    \A h \in DOMAIN hnd : (RunsGetRandom(h) /\ HasEnabled(balls)) => GetRandomReturned(h)
C8_Original == [][C8_OriginalStep]_vars

\* What the code does guarantee about C8: on every catalog with at least one enabled
\* definition of positive rarity get_random returns, and returns an enabled definition
\* of that catalog; no session is ever opened for a disabled definition.  (A catalog
\* whose enabled definitions all have rarity 0 makes random.choices raise ValueError.)
C8_SpawnableStep ==
    \A h \in DOMAIN hnd :
        (RunsGetRandom(h) /\ HasSpawnable(balls))
        => /\ GetRandomReturned(h)
           /\ hnd'[h].pc = "send" => hnd'[h].ball \in Range(balls)
C8_NoDisabledSpawn ==
    /\ \A k \in DOMAIN active_views : active_views[k].model.enabled
    /\ \A h \in DOMAIN hnd : hnd[h].pc = "send" => hnd[h].ball.enabled
C8_OnSpawnable == []C8_NoDisabledSpawn /\ [][C8_SpawnableStep]_vars

\* get_random returned the rarer enabled definition of a catalog that also
\* holds a disabled one
C8_RarerBallChosen ==
    \E h \in DOMAIN hnd :
        /\ hnd[h].pc = "send" /\ hnd[h].ball = GermanyBall
        /\ balls = <<BrazilBall, GermanyBall, RetiredBall>>

\* C9: when no definition is enabled (the catalog is empty or all are disabled),
\* get_random raises RuntimeError("No ball to spawn"): the on_message ends there, posts
\* no announcement and opens no session.
C9_Step ==
    \A h \in DOMAIN hnd :
        (RunsGetRandom(h) /\ ~HasEnabled(balls))
        => /\ hnd'[h].pc = "done" /\ hnd'[h].outcome = "NoBall"
           /\ sent' = sent
           /\ active_views' = active_views
C9_NoBallNoSpawn == [][C9_Step]_vars

\* C9 witness: a trigger fired on a catalog whose only definition is disabled
C9_Witness ==
    \E h \in DOMAIN hnd :
        /\ hnd[h].outcome = "NoBall"
        /\ balls = <<RetiredBall>> /\ lc.pc = "idle"
        /\ sent = 0 /\ active_views = <<>>

\* a fired trigger of on_message h can get a ball and reach channel.send
FireToSend(h) ==
    \E r \in Draws :
        /\ HandleMessage(h, TRUE, TRUE, TRUE, r)
        /\ hnd'[h].pc = "send"
        /\ UNCHANGED <<att, instances, players, specials, funVars, opVars>>
\* the parts of C10 that do not depend on which definitions a reload must load:
\* load_cache completing against an empty Ball table leaves the catalog empty; on an
\* empty catalog a fired trigger ends in "No ball to spawn" with no announcement and no
\* session, while the other on_message invocations stay able to run; and an empty
\* catalog stays empty until load_cache stores the rows of the Ball table.
C10_EmptyUntilReload ==
    /\ (lc.pc = "balls" /\ lc'.pc # "balls" /\ ballTable = <<>>) => balls' = <<>>
    /\ \A h \in DOMAIN hnd :
           (RunsGetRandom(h) /\ balls = <<>>)
           => /\ hnd'[h].outcome = "NoBall"
              /\ sent' = sent /\ active_views' = active_views
              /\ \A g \in DOMAIN hnd \ {h} : hnd'[g] = hnd[g]
    /\ (balls = <<>> /\ balls' # <<>>) => (lc.pc = "balls" /\ balls' = ballTable)

\* the last load_cache run replaced an empty catalog and has stored its rows
ReloadedAfterEmpty == lc.pc # "balls" /\ lc.old = <<>>

\* C10 as claimed: ... until a later load_cache loads at least one enabled definition;
\* after that reload a fired trigger can open a session again.
C10_OriginalStep ==
    /\ C10_EmptyUntilReload
    /\ \A h \in DOMAIN hnd :
           (hnd[h].pc = "handle" /\ ReloadedAfterEmpty /\ HasEnabled(balls))
           => ENABLED FireToSend(h)
C10_Original == [][C10_OriginalStep]_vars

\* What the code does guarantee about C10: ... until a later load_cache loads at least
\* one enabled definition of positive rarity; after that reload a fired trigger can open
\* a session again.
C10_SpawnableStep ==
    /\ C10_EmptyUntilReload
    /\ \A h \in DOMAIN hnd :
           (hnd[h].pc = "handle" /\ ReloadedAfterEmpty /\ HasSpawnable(balls))
           => ENABLED FireToSend(h)
C10_OnSpawnable == [][C10_SpawnableStep]_vars

\* one trigger ended in "No ball to spawn", the catalog has been reloaded
\* with spawnable definitions, and a later trigger has opened a session
C10_SpawnsAfterReload ==
    \E h1, h2 \in DOMAIN hnd :
        /\ hnd[h1].outcome = "NoBall"
        /\ hnd[h2].outcome = "spawned"
        /\ lc.pc = "idle" /\ lc.old = <<>> /\ HasSpawnable(balls)
        /\ DOMAIN active_views = {1}

(***************************************************************************)
(* Properties of the settings changes, of the lost spawn channel and of the *)
(* /admin cooldown command (SpecSettings).                                  *)
(***************************************************************************)
\* C21: a step of the /admin cooldown command, the call of admin_explain included,
\* leaves the trigger state of every guild (accumulator, threshold, last spawn time),
\* the guild cache, the session registry and every on_message handler unchanged, so
\* the spawns go on as without it; what it shows is the guild's trigger state as it is.
C21_Step ==
    \A c \in DOMAIN adm :
        adm'[c] # adm[c]
        => /\ trig' = trig /\ cache' = cache /\ active_views' = active_views
           /\ hnd' = hnd /\ sent' = sent
           /\ adm'[c].outcome = "explained"
              => adm'[c].snapshot = IF adm[c].guild \in DOMAIN trig
                                    THEN Some(trig[adm[c].guild]) ELSE Null
C21_ExplainIsReadOnly == [][C21_Step]_vars

\* C21 witness: the trigger of Guild1 was inspected after its first fire, and has
\* fired again since
C21_Witness ==
    \E c \in DOMAIN adm :
        /\ adm[c].outcome = "explained" /\ adm[c].guild = Guild1
        /\ adm[c].snapshot = Some([accumulator |-> 0, threshold |-> 1, last_spawn |-> 1])
        /\ Guild1 \in DOMAIN trig /\ trig[Guild1].last_spawn = 2
        /\ sent = 2

\* C27 as claimed: once a settings change with enabled=False of a guild has completed,
\* the guild is in the cache only if a settings change of that guild that began later
\* (a higher number) has added it.
C27_DisabledStaysAbsent ==
    \A d \in DOMAIN sc :
        ( /\ sc[d].pc = "done" /\ sc[d].enabled = Some(FALSE)
          /\ sc[d].guild \in DOMAIN cache )
        => \E e \in DOMAIN sc :
               e > d /\ sc[e].guild = sc[d].guild /\ sc[e].outcome = "added"

\* C28: when the trigger fired and the cached channel of the guild cannot be resolved,
\* the on_message removes the guild from the cache and returns: no collectible is
\* selected, nothing is posted, no session is opened; a message of a guild that is not
\* in the cache is dropped; and only a settings change puts a guild back into the cache.
C28_Step ==
    /\ \A h \in DOMAIN hnd :
           (hnd[h].guild \in DOMAIN cache /\ HandleMessage(h, TRUE, FALSE, TRUE, 0))
           => hnd'[h].outcome = "lost_channel"
    /\ \A h \in DOMAIN hnd :
           (hnd[h].pc = "handle" /\ hnd'[h].outcome = "lost_channel")
           => /\ hnd[h].guild \in DOMAIN cache
              /\ DOMAIN cache' = DOMAIN cache \ {hnd[h].guild}
              /\ hnd'[h].pc = "done" /\ hnd'[h].ball = None
              /\ sent' = sent /\ active_views' = active_views
    /\ \A h \in DOMAIN hnd :
           (Guild1 \notin DOMAIN cache /\ OnMessage(h, Guild1, FALSE, FALSE))
           => hnd'[h].pc = "done" /\ hnd'[h].outcome = "dropped"
    /\ (Guild1 \notin DOMAIN cache /\ Guild1 \in DOMAIN cache')
       => \E s \in DOMAIN sc : sc'[s] # sc[s] /\ sc'[s].outcome = "added"
C28_LostChannel == [][C28_Step]_vars

\* C28 witness: with no settings change so far, one on_message lost the channel and the
\* next message of the guild was dropped; nothing was posted
C28_Witness ==
    \E h1, h2 \in DOMAIN hnd :
        /\ hnd[h1].outcome = "lost_channel" /\ hnd[h2].outcome = "dropped"
        /\ \A s \in DOMAIN sc : sc[s].pc = "idle"
        /\ Guild1 \notin DOMAIN cache
        /\ sent = 0 /\ active_views = <<>>

\* C30 as claimed: no on_message that passed the cache-membership test fails on a missing
\* key when it reads the spawn channel after handle_message returned.
C30_CacheEntryStillPresent == \A h \in DOMAIN hnd : hnd[h].outcome # "KeyError"

\* C33: in every reachable state each guild id of the spawner's cache maps to a
\* spawn channel id that is not None, as load_cache establishes; no sequence of
\* settings-change events and messages breaks this.
C33_CachedChannelNotNull ==
    \A g \in DOMAIN cache : cache[g] # None

(***************************************************************************)
(* Properties of the blacklist of guilds under a reload (SpecReload).        *)
(***************************************************************************)
\* C31: a guild that is blacklisted in the BlacklistedGuild table before and during a
\* load_cache run is rejected at every moment of the run: no on_message of that guild
\* gets past the filter to the spawn trigger, also while load_cache is suspended
\* between resetting blacklist_guild and refilling it.
C31_BlacklistedStaysRejected ==
    \A h \in DOMAIN hnd : hnd[h].guild \notin TriggerBlacklist

(***************************************************************************)
(* Properties of the session registry over spawns and catches (SpecSession). *)
(***************************************************************************)
\* a voice message that _check_voice_message does not ignore and that replies to a
\* session of the registry that is caught
RepliesToCaught(m) ==
    /\ m.attachments /\ ~m.blacklisted /\ m.voice /\ m.duration # 0
    /\ m.reference # Null /\ m.reference[1] \in DOMAIN active_views
    /\ active_views[m.reference[1]].caught

\* C34: the key set of active_views only grows: no step of spawn, add_view,
\* try_catch_ball, catch_ball or the voice check removes an entry, so a session stays
\* in the registry after it is caught, and an attempt on a caught session finds it and
\* is answered AlreadyCaught whatever its text (the error reply when sending the answer
\* raises), never NoSuchSession.
C34_Step ==
    /\ DOMAIN active_views \subseteq DOMAIN active_views'
    /\ \A v \in DOMAIN vm, m \in VoiceMessages :
           (RepliesToCaught(m) /\ CheckVoiceMessage(v, m)) => vm'[v].pc = "r_caught"
    /\ \A v \in DOMAIN vm :
           (vm[v].pc = "r_caught" /\ vm'[v] # vm[v])
           => vm'[v].outcome = "AlreadyCaught" \/ vm'[v].pc = "e_reply"
    /\ \A a \in DOMAIN att :
           (att[a].pc = "t_player" /\ active_views[att[a].key].caught /\ att'[a] # att[a])
           => \/ att'[a].outcome = "AlreadyCaught"
              \/ att'[a].raised_at = "t_player"
C34_Kept ==
    /\ \A a \in DOMAIN att : att[a].pc # "idle" => att[a].key \in DOMAIN active_views
    /\ \A i \in DOMAIN instances : \E k \in DOMAIN active_views : active_views[k].caught
C34_RegistryOnlyGrows == []C34_Kept /\ [][C34_Step]_vars

\* C34 witness: a second announcement was registered, the first session was caught and
\* its catch completed, and a later voice message on it was answered AlreadyCaught
C34_Witness ==
    /\ DOMAIN active_views = {1, 2}
    /\ active_views[1].caught /\ active_views[1].disabled
    /\ \E v, w \in DOMAIN vm :
           /\ vm[v].outcome = "Accepted" /\ vm[v].key = 1
           /\ vm[w].outcome = "AlreadyCaught" /\ att[w].pc = "idle"

(***************************************************************************)
(* Properties of the interaction check (SpecInteraction).                   *)
(***************************************************************************)
\* the interaction is less than 2.8 s old, the bot is ready, the user is not in the
\* blacklist and the guild is not in the blacklist of guilds
Allowed(x) ==
    /\ ~x.late /\ bot.ready
    /\ x.user \notin bot.blacklist
    /\ x.guild_id \notin blacklist_guild

\* C35: interaction_check lets an interaction through (returns True) only if it is
\* less than 2.8 s old, the bot is ready, the user id is not in the blacklist and the
\* guild id is not in the guild blacklist; in every other case it returns False, after
\* the notice it sends first (no True is returned either when sending the notice
\* raises: the exception leaves the check).
C35_Step ==
    /\ \A i \in DOMAIN ic, x \in Interactions :
           InteractionCheck(i, x)
           => /\ Allowed(x) <=> ic'[i].result = "True"
              /\ ~Allowed(x) => \/ ic'[i].result = "False"
                                \/ ~x.autocomplete /\ ic'[i].pc = ic'[i].notice
    /\ \A i \in DOMAIN ic :
           (ic[i].notice # None /\ ic'[i] # ic[i])
           => /\ ic[i].pc = ic[i].notice
              /\ ic'[i].result \in {"False", "raised"}
              /\ ic'[i].result = "False" <=> CheckNoticeSent(i, TRUE)
C35_OnlyAllowedPass == [][C35_Step]_vars

\* C35 witness: with the guild Guild3 blacklisted and the bot ready, one interaction was
\* let through and one of the blacklisted guild got the notice and False
C35_Witness ==
    /\ bot.ready /\ blacklist_guild = TriggerBlacklist
    /\ \E i, j \in DOMAIN ic :
           /\ ic[i].result = "True"
           /\ ic[j].result = "False" /\ ic[j].notice = "r_guild"

(***************************************************************************)
(* Properties of the confirmation view (SpecConfirm).                       *)
(***************************************************************************)
\* C36: a ConfirmChoiceView records at most one choice: once value is True or False it
\* never changes again, under every interleaving of confirm and cancel interactions of
\* the designated user that arrive before the first one completes; an interaction of
\* another user never sets value.
C36_Step ==
    /\ ccv.value # None => ccv'.value = ccv.value
    /\ \A b \in DOMAIN btn :
           (btn[b].user # 1 /\ btn'[b] # btn[b]) => ccv'.value = ccv.value
C36_OneChoice == [][C36_Step]_vars

(***************************************************************************)
(* Properties of the startup (SpecReady).                                   *)
(***************************************************************************)
\* the on_ready invocations that went past the test of bot.py:257 into the setup
\* (those that an exception of an awaited call ended are left out)
SetsUp == {r \in DOMAIN rdy : rdy[r].pc # "idle" /\ rdy[r].outcome \notin {"skipped", "Error"}}

\* C37: the startup setup (cache load, adding cogs, loading packages, syncing commands)
\* runs at most once per process: an on_ready delivered after the first one performs
\* no setup, also when it is delivered while the first on_ready is still suspended
\* before it has added its first cog.
C37_SetupAtMostOnce == Cardinality(SetsUp) <= 1

(***************************************************************************)
(* The session registry under add_view (SpecVoice).                         *)
(***************************************************************************)
\* C23 as claimed: add_view under a key that is already registered fails and leaves the
\* registered session, its collectible and its caught flag, as it is: in no state can
\* such a call change the entry of the key.
C23_DuplicateOpenRejected ==
    \A k \in DOMAIN active_views, ball \in {BrazilBall, GermanyBall} :
        ~ENABLED (AddView(k, ball) /\ active_views'[k] # active_views[k])

====
